---- MODULE Spec2Model ----
(***************************************************************************)
(* Model of the hierarchical power balancer of                             *)
(* src/src/PowerBalancerAgent.cpp: the three roles (LeafRole, TreeRole,    *)
(* RootRole), the three step implementations, and a tree of agents that    *)
(* exchange policies and samples through last-value mailboxes.             *)
(*                                                                         *)
(* Powers are whole watts and runtimes whole seconds; the inputs are       *)
(* chosen so that the divisions the code performs on doubles are exact.    *)
(* NAN stands for the IEEE not-a-number: every ordered comparison with it  *)
(* is false, "!=" with it is true, and arithmetic propagates it.           *)
(***************************************************************************)
EXTENDS Integers, Sequences, FiniteSets, TLC

\* ------------------------------------------------------------ configuration

\* The IEEE NaN the roles are constructed with (m_policy, m_root_cap, actual_limit).
NAN == -999

M_STEP_SEND_DOWN_LIMIT == 0
M_STEP_MEASURE_RUNTIME == 1
M_STEP_REDUCE_LIMIT == 2
M_NUM_STEP == 3

\* fan_in[1] children per level-1 agent (leaves), fan_in[2] children of the root.
fan_in == <<2, 1>>

\* m_num_domain: packages per node.
m_num_domain == 2

\* POWER_PACKAGE_MIN / POWER_PACKAGE_MAX as read by PowerBalancerAgent::init.
M_MIN_PKG_POWER_SETTING == 6
M_MAX_PKG_POWER_SETTING == 30

\* Job-level caps the resource manager may hand to the root; 6 is the minimum
\* the root accepts, 36 is above the maximum.
JobCaps == {6, 12, 24, 36}

\* Stable runtimes a balancer may report.
Runtimes == {1, 2}

\* Watts a balancer may take off its limit in one reduction.
ReduceCuts == {0, 6}

\* Bounds of the exploration.
MaxInject == 1
MaxEpoch == 1
MaxStep == 3

Pkgs == 1..m_num_domain
Trees == 1..fan_in[2]
Leaves == 1..(fan_in[1] * fan_in[2])
ParentOf(l) == ((l - 1) \div fan_in[1]) + 1
ChildrenOf(t) == {l \in Leaves : ParentOf(l) = t}

\* ------------------------------------------------------------ doubles

IsNan(x) == x = NAN
Ne(a, b) == IsNan(a) \/ IsNan(b) \/ a # b
Eq(a, b) == ~Ne(a, b)
Lt(a, b) == ~IsNan(a) /\ ~IsNan(b) /\ a < b
Gt(a, b) == Lt(b, a)
Add(a, b) == IF IsNan(a) \/ IsNan(b) THEN NAN ELSE a + b
Sub(a, b) == IF IsNan(a) \/ IsNan(b) THEN NAN ELSE a - b
Div(a, n) == IF IsNan(a) THEN NAN ELSE a \div n

RECURSIVE SeqSum(_)
SeqSum(s) == IF s = <<>> THEN 0 ELSE Add(Head(s), SeqSum(Tail(s)))

SetMin(S) == CHOOSE x \in S : \A y \in S : x <= y
SetMax(S) == CHOOSE x \in S : \A y \in S : x >= y

\* The element of a one-element set; {e(x) : x \in {v}} computes v once, however
\* often e reads x.
The(S) == CHOOSE x \in S : TRUE

\* ------------------------------------------------------------ vectors

Policy(cap, sc, rt, slack) ==
    [power_cap |-> cap, step_count |-> sc, max_epoch_runtime |-> rt, power_slack |-> slack]

Sample(sc, rt, slack, head) ==
    [step_count |-> sc, max_epoch_runtime |-> rt, sum_power_slack |-> slack,
     min_power_headroom |-> head]

\* m_policy(M_NUM_POLICY, NAN)
NanPolicy == Policy(NAN, NAN, NAN, NAN)

NoPolicy == [none |-> TRUE]
NoSample == [none |-> TRUE]

\* ------------------------------------------------------------ Role

\* (2^64) mod M_NUM_STEP: what converting a negative int to size_t adds.
SizeWrap == ((2^16 % M_NUM_STEP) * (2^16 % M_NUM_STEP) * (2^16 % M_NUM_STEP) * (2^16 % M_NUM_STEP)) % M_NUM_STEP

\* Role::step(size_t step_count)
step(step_count) ==
    IF step_count >= 0 THEN step_count % M_NUM_STEP
    ELSE ((step_count % M_NUM_STEP) + SizeWrap) % M_NUM_STEP

\* A variant of NextStepCount that skips a step.
NextStepCountSkip(step_count) == step_count + 2

\* ++m_step_count
NextStepCount(step_count) == step_count + 1

\* ------------------------------------------------------------ PowerBalancer

NewBalancer == [power_cap |-> NAN, power_limit |-> NAN, target_runtime |-> NAN]

\* power_cap(c): sets the cap and resets the limit to it.
BalancerPowerCap(b, c) == [b EXCEPT !.power_cap = c, !.power_limit = c]

BalancerTargetRuntime(b, t) == [b EXCEPT !.target_runtime = t]

\* is_target_met(sample): met, or the limit is lowered by `cut` but not below the minimum.
BalancerIsTargetMet(b, met, cut) ==
    IF met \/ IsNan(b.power_limit) THEN b
    ELSE [b EXCEPT !.power_limit =
             IF @ - cut >= M_MIN_PKG_POWER_SETTING THEN @ - cut ELSE @]

BalancerPowerSlack(b) == Sub(b.power_cap, b.power_limit)

\* ------------------------------------------------------------ LeafRole

NewPackage ==
    [last_epoch_count |-> 0, runtime |-> 0, actual_limit |-> NAN, power_slack |-> 0,
     power_headroom |-> 0, is_out_of_bounds |-> FALSE, is_step_complete |-> FALSE]

\* LeafRole::LeafRole
NewLeaf ==
    [m_step_count |-> -1, m_is_step_complete |-> TRUE, m_policy |-> NanPolicy,
     m_power_balancer |-> [p \in Pkgs |-> NewBalancer],
     m_package |-> [p \in Pkgs |-> NewPackage], err |-> "none"]

\* A variant of SendDownLimitEnterStep that hands the node's whole slack to
\* every package.
SendDownLimitEnterStepWholeSlack(role, in_policy) ==
    [role EXCEPT
        !.m_power_balancer = [p \in Pkgs |->
            BalancerPowerCap(role.m_power_balancer[p],
                             Add(role.m_power_balancer[p].power_limit,
                                 in_policy.power_slack))],
        !.m_is_step_complete = TRUE]

\* A variant of SendDownLimitEnterStep that adds the slack to the cap the
\* balancer holds, not to its limit.
SendDownLimitEnterStepOnCap(role, in_policy) ==
    [role EXCEPT
        !.m_power_balancer = [p \in Pkgs |->
            BalancerPowerCap(role.m_power_balancer[p],
                             Add(role.m_power_balancer[p].power_cap,
                                 Div(in_policy.power_slack, m_num_domain)))],
        !.m_is_step_complete = TRUE]

\* SendDownLimitStep::enter_step
SendDownLimitEnterStep(role, in_policy) ==
    LET slack_power == Div(in_policy.power_slack, m_num_domain) IN
    [role EXCEPT
        !.m_power_balancer = [p \in Pkgs |->
            BalancerPowerCap(role.m_power_balancer[p],
                             Add(role.m_power_balancer[p].power_limit, slack_power))],
        !.m_is_step_complete = TRUE]

\* MeasureRuntimeStep::enter_step
MeasureRuntimeEnterStep(role, in_policy) == role

\* ReduceLimitStep::enter_step
ReduceLimitEnterStep(role, in_policy) ==
    [role EXCEPT !.m_power_balancer = [p \in Pkgs |->
        BalancerTargetRuntime(role.m_power_balancer[p], in_policy.max_epoch_runtime)]]

\* step_imp().enter_step
EnterStep(role, in_policy) ==
    CASE step(role.m_step_count) = M_STEP_SEND_DOWN_LIMIT -> SendDownLimitEnterStep(role, in_policy)
      [] step(role.m_step_count) = M_STEP_MEASURE_RUNTIME -> MeasureRuntimeEnterStep(role, in_policy)
      [] step(role.m_step_count) = M_STEP_REDUCE_LIMIT -> ReduceLimitEnterStep(role, in_policy)

\* A variant of LeafPkgLimit that hands the whole cap to every package.
LeafPkgLimitWhole(power_cap) == power_cap

\* The cap each package gets from a job-level cap.
LeafPkgLimit(power_cap) == Div(power_cap, m_num_domain)

\* LeafRole::adjust_platform, the policy part (reset, advance, or neither).
LeafAdjustPolicy(role, in_policy) ==
    LET r0 == [role EXCEPT !.m_policy = in_policy, !.err = "none"] IN
    IF in_policy.power_cap # 0
    THEN [r0 EXCEPT
            !.m_step_count = M_STEP_SEND_DOWN_LIMIT,
            !.m_power_balancer = [p \in Pkgs |->
                BalancerPowerCap(r0.m_power_balancer[p], LeafPkgLimit(in_policy.power_cap))],
            !.m_is_step_complete = TRUE]
    ELSE IF in_policy.step_count # r0.m_step_count
    THEN LET r1 == [r0 EXCEPT !.m_step_count = NextStepCount(@), !.m_is_step_complete = FALSE] IN
         IF r1.m_step_count # in_policy.step_count
         THEN [r1 EXCEPT !.err = "out_of_sync"]
         ELSE EnterStep(r1, in_policy)
    ELSE r0

\* LeafRole::adjust_platform: `bool result = false`, assigned nowhere else.
LeafAdjustResult == FALSE

\* LeafRole::adjust_platform, the loop over the packages: nothing is written to
\* the platform, so actual_limit keeps its value and the result stays false.
LeafAdjustLimits(role) ==
    [role EXCEPT !.m_package = [p \in Pkgs |->
        IF Lt(role.m_power_balancer[p].power_limit, role.m_package[p].actual_limit)
        THEN [role.m_package[p] EXCEPT !.is_out_of_bounds = TRUE]
        ELSE role.m_package[p]]]

\* LeafRole::adjust_platform
LeafAdjustPlatform(role, in_policy) ==
    The({IF r.err # "none" THEN r ELSE LeafAdjustLimits(r) :
            r \in {LeafAdjustPolicy(role, in_policy)}})

\* The answers of the platform and of the balancers during one sample_platform:
\* per package, is_runtime_stable, runtime_sample, is_target_met and the reduction
\* the balancer makes when the target is not met.  StepAnswers(s) is what one
\* package can answer in step s: the answers the step reads vary, the others
\* are fixed.
StepAnswers(s) ==
    CASE s = M_STEP_SEND_DOWN_LIMIT ->
             [stable : {TRUE}, runtime : {SetMin(Runtimes)}, met : {TRUE}, cut : {0}]
      [] s = M_STEP_MEASURE_RUNTIME ->
             [stable : BOOLEAN, runtime : Runtimes, met : {TRUE}, cut : {0}]
      [] s = M_STEP_REDUCE_LIMIT ->
             [stable : {TRUE}, runtime : {SetMin(Runtimes)}, met : BOOLEAN, cut : ReduceCuts]

\* The answers in the step of `role`.
AnswersFor(role) == [Pkgs -> StepAnswers(step(role.m_step_count))]

\* SendDownLimitStep::sample_platform
SendDownLimitSamplePlatform(role, epoch_count, ans) == role

\* A variant of MeasureRuntimePackage that closes the step as soon as one
\* balancer reports its runtime stable.
MeasureRuntimePackageAnyStable(role, p, epoch_count, ans) ==
    LET r0 == [role EXCEPT !.m_package[p].runtime = 0] IN
    IF epoch_count[p] # r0.m_package[p].last_epoch_count /\ ~r0.m_is_step_complete
    THEN [r0 EXCEPT !.m_package[p].runtime = ans[p].runtime,
                    !.m_is_step_complete = ans[p].stable]
    ELSE r0

\* MeasureRuntimeStep::sample_platform, the body of the loop for package p.
MeasureRuntimePackage(role, p, epoch_count, ans) ==
    LET r0 == [role EXCEPT !.m_package[p].runtime = 0] IN
    IF epoch_count[p] # r0.m_package[p].last_epoch_count /\ ~r0.m_is_step_complete
    THEN LET is_step_complete == ans[p].stable
             runtime == ans[p].runtime
             r1 == IF Lt(r0.m_package[p].runtime, runtime)
                   THEN [r0 EXCEPT !.m_package[p].runtime = runtime]
                   ELSE r0
         IN  IF r1.m_is_step_complete /\ ~is_step_complete
             THEN [r1 EXCEPT !.m_is_step_complete = is_step_complete]
             ELSE r1
    ELSE r0

\* A variant of ReduceLimitPackage that declares the package done at the first
\* new epoch, whatever the balancer answers.
ReduceLimitPackageDoneAtOnce(role, p, epoch_count, ans) ==
    LET package == role.m_package[p]
        balancer == role.m_power_balancer[p]
    IN
    IF epoch_count[p] # package.last_epoch_count /\ ~package.is_step_complete
    THEN LET b1 == BalancerIsTargetMet(balancer, ans[p].met, ans[p].cut) IN
         [role EXCEPT
             !.m_power_balancer[p] = b1,
             !.m_package[p] = [package EXCEPT
                 !.is_step_complete = TRUE,
                 !.power_slack = BalancerPowerSlack(b1),
                 !.is_out_of_bounds = FALSE,
                 !.power_headroom = Sub(b1.power_cap, b1.power_limit),
                 !.last_epoch_count = epoch_count[p]]]
    ELSE role

\* ReduceLimitStep::sample_platform, the body of the loop for package p.
ReduceLimitPackage(role, p, epoch_count, ans) ==
    LET package == role.m_package[p]
        balancer == role.m_power_balancer[p]
    IN
    IF epoch_count[p] # package.last_epoch_count /\ ~package.is_step_complete
    THEN LET b1 == IF package.is_out_of_bounds THEN balancer
                   ELSE BalancerIsTargetMet(balancer, ans[p].met, ans[p].cut)
             done == package.is_out_of_bounds \/ ans[p].met
         IN  [role EXCEPT
                 !.m_power_balancer[p] = b1,
                 !.m_package[p] = [package EXCEPT
                     !.is_step_complete = done,
                     !.power_slack = BalancerPowerSlack(b1),
                     !.is_out_of_bounds = FALSE,
                     !.power_headroom = Sub(b1.power_cap, b1.power_limit),
                     !.last_epoch_count = epoch_count[p]]]
    ELSE role

\* The loop over the packages, pkg_idx = p .. m_num_domain, of the current step.
RECURSIVE StepSamplePlatform(_, _, _, _)
StepSamplePlatform(role, p, epoch_count, ans) ==
    IF p > m_num_domain THEN role
    ELSE The({StepSamplePlatform(r, p + 1, epoch_count, ans) :
                r \in {CASE step(role.m_step_count) = M_STEP_SEND_DOWN_LIMIT ->
                               SendDownLimitSamplePlatform(role, epoch_count, ans)
                         [] step(role.m_step_count) = M_STEP_MEASURE_RUNTIME ->
                               MeasureRuntimePackage(role, p, epoch_count, ans)
                         [] step(role.m_step_count) = M_STEP_REDUCE_LIMIT ->
                               ReduceLimitPackage(role, p, epoch_count, ans)}})

\* A variant of LeafFillSample that reports the step after the leaf's own.
LeafFillSampleNextStep(r) ==
    [role |-> r,
     out |-> Sample(r.m_step_count + 1,
                    SetMax({0} \cup {r.m_package[p].runtime : p \in Pkgs}),
                    SeqSum([p \in Pkgs |-> r.m_package[p].power_slack]),
                    SeqSum([p \in Pkgs |-> r.m_package[p].power_headroom])),
     result |-> r.m_is_step_complete]

\* LeafRole::sample_platform, after the step's part: out_sample and the result.
LeafFillSample(r) ==
    LET runtime == SetMax({0} \cup {r.m_package[p].runtime : p \in Pkgs})
        power_slack == SeqSum([p \in Pkgs |-> r.m_package[p].power_slack])
        power_headroom == SeqSum([p \in Pkgs |-> r.m_package[p].power_headroom])
    IN  [role |-> r,
         out |-> Sample(r.m_step_count, runtime, power_slack, power_headroom),
         result |-> r.m_is_step_complete]

\* LeafRole::sample_platform: the role after the call, out_sample and the result.
LeafSamplePlatform(role, epoch_count, ans) ==
    The({LeafFillSample(r) :
            r \in {StepSamplePlatform([role EXCEPT !.err = "none"], 1, epoch_count, ans)}})

\* ------------------------------------------------------------ TreeRole

\* TreeRole::TreeRole
NewTree ==
    [m_step_count |-> -1, m_is_step_complete |-> TRUE, m_policy |-> NanPolicy, err |-> "none"]

\* A variant of AggregateSample that takes the highest step_count of the children.
AggregateSampleMaxStep(in_sample) ==
    LET idx == DOMAIN in_sample IN
    Sample(SetMax({in_sample[i].step_count : i \in idx}),
           SetMax({in_sample[i].max_epoch_runtime : i \in idx}),
           SeqSum([i \in idx |-> in_sample[i].sum_power_slack]),
           SetMin({in_sample[i].min_power_headroom : i \in idx}))

\* A variant of AggregateSample that adds up the children's headroom.
AggregateSampleSumHeadroom(in_sample) ==
    LET idx == DOMAIN in_sample IN
    Sample(SetMin({in_sample[i].step_count : i \in idx}),
           SetMax({in_sample[i].max_epoch_runtime : i \in idx}),
           SeqSum([i \in idx |-> in_sample[i].sum_power_slack]),
           SeqSum([i \in idx |-> in_sample[i].min_power_headroom]))

\* Agent::aggregate_sample with M_AGG_FUNC = (min, max, sum, min); in_sample is a
\* sequence with one sample per child.
AggregateSample(in_sample) ==
    LET idx == DOMAIN in_sample IN
    Sample(SetMin({in_sample[i].step_count : i \in idx}),
           SetMax({in_sample[i].max_epoch_runtime : i \in idx}),
           SeqSum([i \in idx |-> in_sample[i].sum_power_slack]),
           SetMin({in_sample[i].min_power_headroom : i \in idx}))

\* A variant of FillOutPolicy that writes the first child's slot only.
FillOutPolicyFirst(out_policy, po) ==
    [i \in DOMAIN out_policy |-> IF i = 1 THEN po ELSE out_policy[i]]

\* for (auto &po : out_policy) { po = ...; }: the caller's vector out_policy, one
\* slot per child, after descend has written the policy po to it.
FillOutPolicy(out_policy, po) == [i \in DOMAIN out_policy |-> po]

\* TreeRole::descend: the role after the call, the policy written to every child
\* slot (NoPolicy when none is) and the result.
TreeDescend(role, in_policy) ==
    LET r0 == [role EXCEPT !.err = "none"] IN
    IF r0.m_is_step_complete /\ in_policy.step_count # r0.m_step_count
    THEN IF in_policy.step_count = M_STEP_SEND_DOWN_LIMIT
         THEN [role |-> [r0 EXCEPT !.m_step_count = M_STEP_SEND_DOWN_LIMIT,
                                   !.m_is_step_complete = FALSE,
                                   !.m_policy = in_policy],
               out |-> in_policy, result |-> TRUE]
         ELSE IF in_policy.step_count = r0.m_step_count + 1
         THEN [role |-> [r0 EXCEPT !.m_step_count = NextStepCount(@),
                                   !.m_is_step_complete = FALSE,
                                   !.m_policy = in_policy],
               out |-> in_policy, result |-> TRUE]
         ELSE [role |-> [r0 EXCEPT !.err = "out_of_sync"],
               out |-> NoPolicy, result |-> FALSE]
    ELSE [role |-> r0, out |-> NoPolicy, result |-> FALSE]

\* A variant of AscendCompletes that does not look at the step-complete flag.
AscendCompletesAnyTime(role, out_sample) ==
    out_sample.step_count = role.m_step_count

\* The test of TreeRole::ascend: the step is open and the aggregate reports it.
AscendCompletes(role, out_sample) ==
    ~role.m_is_step_complete /\ out_sample.step_count = role.m_step_count

\* TreeRole::ascend: the role after the call, out_sample and the result.
TreeAscend(role, in_sample) ==
    LET r0 == [role EXCEPT !.err = "none"]
        out_sample == AggregateSample(in_sample)
    IN
    IF AscendCompletes(r0, out_sample)
    THEN IF out_sample.step_count # r0.m_step_count
         THEN [role |-> [r0 EXCEPT !.m_is_step_complete = TRUE, !.err = "sample_mismatch"],
               out |-> out_sample, result |-> FALSE]
         ELSE [role |-> [r0 EXCEPT !.m_is_step_complete = TRUE],
               out |-> out_sample, result |-> TRUE]
    ELSE [role |-> r0, out |-> out_sample, result |-> FALSE]

\* ------------------------------------------------------------ RootRole

\* calc_num_node
M_NUM_NODE == fan_in[1] * fan_in[2]

\* RootRole::RootRole
NewRoot ==
    [m_step_count |-> M_STEP_SEND_DOWN_LIMIT, m_is_step_complete |-> FALSE,
     m_policy |-> NanPolicy, m_root_cap |-> NAN, err |-> "none"]

\* A variant of SendDownLimitUpdatePolicy that leaves the cap in the policy.
SendDownLimitUpdatePolicyKeepCap(role, sample) == role

\* SendDownLimitStep::update_policy
SendDownLimitUpdatePolicy(role, sample) == [role EXCEPT !.m_policy.power_cap = 0]

\* MeasureRuntimeStep::update_policy
MeasureRuntimeUpdatePolicy(role, sample) ==
    [role EXCEPT !.m_policy.max_epoch_runtime = sample.max_epoch_runtime]

\* A variant of ReduceLimitUpdatePolicy that does not look at the headroom.
ReduceLimitUpdatePolicyNoClamp(role, sample) ==
    [role EXCEPT !.m_policy.power_slack = Div(sample.sum_power_slack, M_NUM_NODE)]

\* ReduceLimitStep::update_policy
ReduceLimitUpdatePolicy(role, sample) ==
    LET slack == Div(sample.sum_power_slack, M_NUM_NODE)
        head == sample.min_power_headroom
    IN  [role EXCEPT !.m_policy.power_slack = IF Lt(slack, head) THEN slack ELSE head]

\* step_imp().update_policy
UpdatePolicy(role, sample) ==
    CASE step(role.m_step_count) = M_STEP_SEND_DOWN_LIMIT -> SendDownLimitUpdatePolicy(role, sample)
      [] step(role.m_step_count) = M_STEP_MEASURE_RUNTIME -> MeasureRuntimeUpdatePolicy(role, sample)
      [] step(role.m_step_count) = M_STEP_REDUCE_LIMIT -> ReduceLimitUpdatePolicy(role, sample)

\* A variant of RootAscend that publishes the next step whatever ascend returned.
RootAscendBlind(role, in_sample) ==
    LET t == TreeAscend(role, in_sample) IN
    IF Ne(t.role.m_step_count, t.role.m_policy.step_count)
    THEN [role |-> [t.role EXCEPT !.err = "sample_mismatch"],
          out |-> t.out, result |-> FALSE]
    ELSE [role |-> [UpdatePolicy(t.role, t.out) EXCEPT
                       !.m_policy.step_count = t.role.m_step_count + 1],
          out |-> t.out, result |-> TRUE]

\* A variant of RootAscend that publishes the step after the next one.
RootAscendSkip(role, in_sample) ==
    LET t == TreeAscend(role, in_sample) IN
    IF t.result
    THEN IF Ne(t.role.m_step_count, t.role.m_policy.step_count)
         THEN [role |-> [t.role EXCEPT !.err = "sample_mismatch"],
               out |-> t.out, result |-> FALSE]
         ELSE [role |-> [UpdatePolicy(t.role, t.out) EXCEPT
                            !.m_policy.step_count = t.role.m_step_count + 2],
               out |-> t.out, result |-> TRUE]
    ELSE t

\* RootRole::ascend
RootAscend(role, in_sample) ==
    LET t == TreeAscend(role, in_sample) IN
    IF t.result
    THEN IF Ne(t.role.m_step_count, t.role.m_policy.step_count)
         THEN [role |-> [t.role EXCEPT !.err = "sample_mismatch"],
               out |-> t.out, result |-> FALSE]
         ELSE [role |-> [UpdatePolicy(t.role, t.out) EXCEPT
                            !.m_policy.step_count = t.role.m_step_count + 1],
               out |-> t.out, result |-> TRUE]
    ELSE t

\* A variant of IsNewCap that takes every non-zero cap for a new one.
IsNewCapAlways(role, in_policy) == in_policy.power_cap # 0

\* A variant of IsNewCap that takes no cap for a new one.
IsNewCapNever(role, in_policy) == FALSE

\* RootRole::descend, its first test: the manager's cap is not the one in force.
IsNewCap(role, in_policy) == Ne(in_policy.power_cap, role.m_root_cap)

\* RootRole::descend
RootDescend(role, in_policy) ==
    LET r0 == [role EXCEPT !.err = "none"] IN
    IF IsNewCap(r0, in_policy)
    THEN LET r1 == [r0 EXCEPT
                       !.m_step_count = M_STEP_SEND_DOWN_LIMIT,
                       !.m_policy = Policy(in_policy.power_cap, M_STEP_SEND_DOWN_LIMIT, 0, 0),
                       !.m_root_cap = in_policy.power_cap]
         IN  IF Gt(r1.m_root_cap, M_MAX_PKG_POWER_SETTING) \/
                Lt(r1.m_root_cap, M_MIN_PKG_POWER_SETTING)
             THEN [role |-> [r1 EXCEPT !.err = "invalid_budget"],
                   out |-> NoPolicy, result |-> FALSE]
             ELSE [role |-> r1, out |-> r1.m_policy, result |-> TRUE]
    ELSE IF Eq(r0.m_step_count + 1, r0.m_policy.step_count)
    THEN LET r1 == [r0 EXCEPT !.m_step_count = NextStepCount(@), !.m_is_step_complete = FALSE]
         IN  [role |-> r1, out |-> r1.m_policy, result |-> TRUE]
    ELSE IF Ne(r0.m_step_count, r0.m_policy.step_count)
    THEN [role |-> [r0 EXCEPT !.err = "out_of_sync"], out |-> NoPolicy, result |-> FALSE]
    ELSE [role |-> r0, out |-> NoPolicy, result |-> FALSE]

\* ------------------------------------------------------------ PowerBalancerAgent

\* POWER_PACKAGE_TDP of the board, read by the constructor.
m_power_tdp == 48

\* POWER_PACKAGE_MIN and POWER_PACKAGE_MAX of the board, as validate_policy
\* reads them: the packages' settings added up.
min_power_setting == m_num_domain * M_MIN_PKG_POWER_SETTING
max_power_setting == m_num_domain * M_MAX_PKG_POWER_SETTING

\* A variant of DefaultIfNan that leaves the NaN in place.
DefaultIfNanKeep(x, default) == x

\* if (std::isnan(policy[i])) { policy[i] = default; }
DefaultIfNan(x, default) == IF IsNan(x) THEN default ELSE x

\* std::all_of(policy.begin(), policy.end(), x == 0.0)
AllZero(policy) ==
    /\ Eq(policy.power_cap, 0) /\ Eq(policy.step_count, 0)
    /\ Eq(policy.max_epoch_runtime, 0) /\ Eq(policy.power_slack, 0)

\* PowerBalancerAgent::validate_policy: the vector `policy` after the call and
\* the exception it threw, if any.
ValidatePolicy(policy) ==
    LET filled == Policy(DefaultIfNan(policy.power_cap, m_power_tdp),
                         DefaultIfNan(policy.step_count, 0),
                         DefaultIfNan(policy.max_epoch_runtime, 0),
                         DefaultIfNan(policy.power_slack, 0))
        clamped == IF Ne(filled.power_cap, 0)
                   THEN [filled EXCEPT !.power_cap =
                            IF Lt(@, min_power_setting) THEN min_power_setting
                            ELSE IF Gt(@, max_power_setting) THEN max_power_setting
                            ELSE @]
                   ELSE filled
    IN  [policy |-> clamped,
         err |-> IF AllZero(clamped) THEN "invalid_policy" ELSE "none"]

\* ------------------------------------------------------------ the tree of agents

VARIABLES
    root,          \* the RootRole
    tree,          \* the TreeRole of every level-1 agent
    leaf,          \* the LeafRole of every node
    down_tree,     \* last policy sent down to each level-1 agent (m_data_sent_down)
    down_leaf,     \* last policy sent down to each leaf
    up_leaf,       \* last sample each leaf sent up (m_data_sent_up)
    up_tree,       \* last sample each level-1 agent sent up
    epoch_count,   \* the EPOCH_COUNT signal of every package
    job_cap,       \* the cap of the resource manager's policy
    injected,      \* how often the resource manager changed the cap
    call,          \* the last call of a role method: its input and its result
    reported,      \* per child, the step counts of the samples it sent up
    caps_seen,     \* the caps the root accepted
    all_good,      \* per leaf: in its last sample every balancer answered stable / met
    balancer_log,  \* per package of the leaf under test: what its balancer was handed
    ascend_true,   \* per non-leaf role under test: how often ascend returned true
                   \* since the role entered its step (2: twice or more)
    split          \* the arguments of a call of BalancingAgent::split_budget and
                   \* what it returned

vars == <<root, tree, leaf, down_tree, down_leaf, up_leaf, up_tree, epoch_count,
          job_cap, injected, call, reported, caps_seen, all_good, balancer_log,
          ascend_true, split>>

NoCall == [op |-> "none", who |-> "none", in_policy |-> NanPolicy, in_sample |-> <<>>,
           out_policy |-> NoPolicy, out_sample |-> NoSample, result |-> FALSE]

Call(op, who, in_policy, in_sample, out_policy, out_sample, result) ==
    [op |-> op, who |-> who, in_policy |-> in_policy, in_sample |-> in_sample,
     out_policy |-> out_policy, out_sample |-> out_sample, result |-> result]

\* Nothing was handed to a balancer yet: `fed` says whether the last
\* sample_platform handed it a runtime, `epoch` is the EPOCH_COUNT of the last
\* runtime handed to it, `stable` whether is_runtime_stable answered true since
\* the step was entered, `met` what is_target_met answered in the last call,
\* `control` the limit the last adjust_platform wrote to the platform's control
\* of the package and `adjusted` the limit it passed to power_limit_adjusted
\* (NAN: none).
NoLog ==
    [p \in Pkgs |-> [fed |-> FALSE, epoch |-> -1, stable |-> FALSE, met |-> FALSE,
                     control |-> NAN, adjusted |-> NAN]]

\* No call of split_budget was made.
NoSplit == [in |-> [none |-> TRUE], out |-> [none |-> TRUE]]

\* The state after construction of every role (PowerBalancerAgent::init).
InitRoles ==
    /\ root = NewRoot
    /\ tree = [t \in Trees |-> NewTree]
    /\ leaf = [l \in Leaves |-> NewLeaf]
    /\ epoch_count = [l \in Leaves |-> [p \in Pkgs |-> 0]]
    /\ call = NoCall
    /\ all_good = [l \in Leaves |-> FALSE]
    /\ balancer_log = NoLog
    /\ ascend_true = [who \in {"tree", "root"} |-> 0]
    /\ split = NoSplit

Init ==
    /\ InitRoles
    /\ down_tree = [t \in Trees |-> NoPolicy]
    /\ down_leaf = [l \in Leaves |-> NoPolicy]
    /\ up_leaf = [l \in Leaves |-> NoSample]
    /\ up_tree = [t \in Trees |-> NoSample]
    /\ job_cap \in JobCaps
    /\ injected = 0
    /\ reported = [a \in {"tree", "leaf"} |-> [i \in Leaves |-> {}]]
    /\ caps_seen = {}

\* The resource manager writes a new cap.
InjectCap(c) ==
    /\ injected < MaxInject
    /\ c # job_cap
    /\ job_cap' = c
    /\ injected' = injected + 1
    /\ UNCHANGED <<root, tree, leaf, down_tree, down_leaf, up_leaf, up_tree, epoch_count,
                   call, reported, caps_seen, all_good, balancer_log,
                   ascend_true, split>>

\* The application passes an epoch on node l: the ranks of every package of the
\* node reach the epoch marker, and every package's EPOCH_COUNT advances.
NewEpoch(l) ==
    /\ \A p \in Pkgs : epoch_count[l][p] < MaxEpoch
    /\ epoch_count' = [epoch_count EXCEPT ![l] = [p \in Pkgs |-> @[p] + 1]]
    /\ UNCHANGED <<root, tree, leaf, down_tree, down_leaf, up_leaf, up_tree,
                   job_cap, injected, call, reported, caps_seen, all_good, balancer_log,
                   ascend_true, split>>

\* The out_policy vector of level-1 agent t: the slots of its children, in child
\* order.
ChildPolicies(t) == [i \in 1..fan_in[1] |-> down_leaf[(t - 1) * fan_in[1] + i]]

\* send_down of the vector out_policy by level-1 agent t: child i gets slot i.
SendDown(t, out_policy) ==
    [l \in Leaves |-> IF ParentOf(l) = t THEN out_policy[l - (t - 1) * fan_in[1]]
                                        ELSE down_leaf[l]]

\* The samples of the children of t, in child order.
ChildSamples(t) == [i \in 1..fan_in[1] |-> up_leaf[(t - 1) * fan_in[1] + i]]

\* The root's tick: descend with the manager's policy and send_down on true, then
\* receive_up and ascend.
RootTick ==
    /\ root.err = "none"
    /\ \E d \in {RootDescend(root, Policy(job_cap, 0, 0, 0))} :
       \E a \in {IF d.role.err = "none" /\ \A t \in Trees : up_tree[t] # NoSample
                 THEN RootAscend(d.role, up_tree)
                 ELSE [role |-> d.role, out |-> NoSample, result |-> FALSE]} :
           /\ root' = a.role
           /\ down_tree' = IF d.result THEN FillOutPolicy(down_tree, d.out) ELSE down_tree
           /\ caps_seen' = IF d.result /\ d.out.power_cap # 0
                           THEN caps_seen \cup {d.out.power_cap} ELSE caps_seen
    /\ UNCHANGED <<tree, leaf, down_leaf, up_leaf, up_tree, epoch_count, job_cap,
                   injected, call, reported, all_good, balancer_log,
                   ascend_true, split>>

\* A level-1 agent's tick: receive_down, descend, send_down on true, then
\* receive_up, ascend, send_up on true.
TreeTick(t) ==
    /\ tree[t].err = "none"
    /\ \E d \in {IF down_tree[t] # NoPolicy
                 THEN TreeDescend(tree[t], down_tree[t])
                 ELSE [role |-> tree[t], out |-> NoPolicy, result |-> FALSE]} :
       \E a \in {IF d.role.err = "none" /\ \A l \in ChildrenOf(t) : up_leaf[l] # NoSample
                 THEN TreeAscend(d.role, ChildSamples(t))
                 ELSE [role |-> d.role, out |-> NoSample, result |-> FALSE]} :
           /\ tree' = [tree EXCEPT ![t] = a.role]
           /\ down_leaf' = IF d.result
                           THEN SendDown(t, FillOutPolicy(ChildPolicies(t), d.out))
                           ELSE down_leaf
           /\ up_tree' = IF a.result THEN [up_tree EXCEPT ![t] = a.out] ELSE up_tree
           /\ reported' = IF a.result
                          THEN [reported EXCEPT !["tree"][t] = @ \cup {a.out.step_count}]
                          ELSE reported
    /\ UNCHANGED <<root, leaf, down_tree, up_leaf, epoch_count, job_cap,
                   injected, call, caps_seen, all_good, balancer_log,
                   ascend_true, split>>

\* The role dispatches to the step implementation s.
InStep(role, s) == step(role.m_step_count) = s

\* Whether sample_platform hands a runtime of package p to its balancer.
Fed(role, p, epoch) ==
    /\ epoch[p] # role.m_package[p].last_epoch_count
    /\ CASE step(role.m_step_count) = M_STEP_SEND_DOWN_LIMIT -> FALSE
         [] step(role.m_step_count) = M_STEP_MEASURE_RUNTIME -> ~role.m_is_step_complete
         [] step(role.m_step_count) = M_STEP_REDUCE_LIMIT ->
                ~role.m_package[p].is_step_complete /\ ~role.m_package[p].is_out_of_bounds

\* The log after sample_platform of `role` with the answers `ans`.
LogSample(role, epoch, ans, log) ==
    [p \in Pkgs |->
        IF Fed(role, p, epoch)
        THEN [log[p] EXCEPT
                 !.fed = TRUE, !.epoch = epoch[p],
                 !.stable = @ \/ (InStep(role, M_STEP_MEASURE_RUNTIME) /\ ans[p].stable),
                 !.met = InStep(role, M_STEP_REDUCE_LIMIT) /\ ans[p].met]
        ELSE [log[p] EXCEPT !.fed = FALSE, !.met = FALSE]]

\* The log after adjust_platform took the leaf from `role` to `after`: a step
\* that is entered starts without a stable answer; the loop over the packages
\* writes no control (the branch for a valid request is empty) and calls
\* power_limit_adjusted when `result` is set.
LogAdjust(role, after, log) ==
    [p \in Pkgs |->
        [log[p] EXCEPT !.fed = FALSE, !.met = FALSE,
                       !.stable = @ /\ after.m_step_count = role.m_step_count,
                       !.control = NAN,
                       !.adjusted = IF after.err = "none" /\ LeafAdjustResult
                                    THEN after.m_package[p].actual_limit ELSE NAN]]

\* Every package is fed and its balancer answers stable (and target met).
AllGood(role, epoch, ans) ==
    \A p \in Pkgs : Fed(role, p, epoch) /\ ans[p].stable /\ ans[p].met

\* In a run of the tree the balancers of node l settle on the runtime l (the
\* higher the node, the slower); whether they call it stable, and whether the
\* target is met, is open at every sample.
RunAnswers(l, role) ==
    {[p \in Pkgs |-> [a[p] EXCEPT !.runtime = SetMin({l, SetMax(Runtimes)})]] :
        a \in [Pkgs -> {x \in StepAnswers(step(role.m_step_count)) :
                            x.runtime = SetMin(Runtimes)}]}

\* A leaf's tick: receive_down, adjust_platform, sample_platform, send_up on true.
LeafTick(l) ==
    /\ leaf[l].err = "none"
    /\ \E adjusted \in {IF down_leaf[l] # NoPolicy
                        THEN LeafAdjustPlatform(leaf[l], down_leaf[l])
                        ELSE leaf[l]} :
           IF adjusted.err # "none"
           THEN /\ leaf' = [leaf EXCEPT ![l] = adjusted]
                /\ UNCHANGED <<up_leaf, reported, all_good>>
           ELSE \E ans \in RunAnswers(l, adjusted) :
                \E s \in {LeafSamplePlatform(adjusted, epoch_count[l], ans)} :
                  /\ leaf' = [leaf EXCEPT ![l] = s.role]
                  /\ up_leaf' = IF s.result THEN [up_leaf EXCEPT ![l] = s.out] ELSE up_leaf
                  /\ reported' = IF s.result
                                 THEN [reported EXCEPT !["leaf"][l] = @ \cup {s.out.step_count}]
                                 ELSE reported
                  /\ all_good' = [all_good EXCEPT ![l] = AllGood(adjusted, epoch_count[l], ans)]
    /\ UNCHANGED <<root, tree, down_tree, down_leaf, up_tree, epoch_count, job_cap,
                   injected, call, caps_seen, balancer_log,
                   ascend_true, split>>

Next ==
    \/ \E c \in JobCaps : InjectCap(c)
    \/ \E l \in Leaves : NewEpoch(l)
    \/ RootTick
    \/ \E t \in Trees : TreeTick(t)
    \/ \E l \in Leaves : LeafTick(l)

Spec == Init /\ [][Next]_vars

\* Every controller keeps ticking.
Fairness ==
    /\ WF_vars(RootTick)
    /\ \A t \in Trees : WF_vars(TreeTick(t))
    /\ \A l \in Leaves : WF_vars(LeafTick(l))

FairSpec == Init /\ [][Next]_vars /\ Fairness

\* ------------------------------------------------------------ the roles alone

\* Every role method called on its own, as a unit test calls it: on the first
\* leaf, the first level-1 agent or the root, with any input of the sets below.
\* `call.who` names the role under test: "leaf", "tree" or "root". An exception
\* ends the test: a role that failed is not called again, but for the root whose
\* descend refused a cap: the manager's policy is handed to it again.

HCaps == {12, 24}

HPolicies ==
    {Policy(c, M_STEP_SEND_DOWN_LIMIT, 0, 0) : c \in HCaps}
    \cup {Policy(0, k, 2, 6) : k \in 1..MaxStep}

\* Policies a leaf may be handed: those above, and one without a cap at
\* step_count 0, as a leaf would get it that missed the policy with the cap.
HLeafPolicies == HPolicies \cup {Policy(0, M_STEP_SEND_DOWN_LIMIT, 2, 6)}

\* Samples a child may report to a role at step_count sc: a step next to sc, and
\* one of four (runtime, slack, headroom) triples.
HSamples(sc) ==
    {Sample(k, v[1], v[2], v[3]) :
        k \in {sc - 1, sc, sc + 1} \cap 0..MaxStep,
        v \in {<<0, 0, 0>>, <<1, 6, 0>>, <<2, 0, 6>>, <<2, 6, 12>>}}

\* Policy vectors the resource manager may write: every field may be NaN.
HManagerPolicies ==
    [power_cap : {NAN, 0, 3, 66}, step_count : {NAN, 0},
     max_epoch_runtime : {NAN, 0}, power_slack : {NAN, 0, 6}]

\* Policies the root may be handed: a cap of the manager with step_count 0 or
\* 1, and the vector the last validate_policy returned without an exception, as
\* the controller hands it on to split_policy.
HRootPolicies ==
    {Policy(c, k, 0, 0) : c \in JobCaps, k \in {0, 1}}
    \cup (IF call.op = "validate_policy" /\ call.result THEN {call.out_policy} ELSE {})

HInit ==
    /\ InitRoles
    /\ down_tree = [t \in Trees |-> NoPolicy]
    /\ down_leaf = [l \in Leaves |-> NoPolicy]
    /\ up_leaf = [l \in Leaves |-> NoSample]
    /\ up_tree = [t \in Trees |-> NoSample]
    /\ job_cap = 0
    /\ injected = 0
    /\ reported = [a \in {"tree", "leaf"} |-> [i \in Leaves |-> {}]]
    /\ caps_seen = {}

HUnchanged ==
    UNCHANGED <<up_leaf, up_tree, job_cap, injected, reported, caps_seen, split>>

HFocus(who) == call.who \in {"none", who}

\* LeafRole::adjust_platform(in_policy)
HLeafAdjust(in_policy) ==
    /\ HFocus("leaf")
    /\ leaf[1].err = "none"
    /\ leaf[1].m_step_count < MaxStep
    /\ leaf' = [leaf EXCEPT ![1] = LeafAdjustPlatform(leaf[1], in_policy)]
    /\ call' = Call("adjust_platform", "leaf", in_policy, <<>>, NoPolicy, NoSample,
                    LeafAdjustResult)
    /\ balancer_log' = LogAdjust(leaf[1], leaf'[1], balancer_log)
    /\ UNCHANGED <<root, tree, down_tree, down_leaf, epoch_count, all_good, ascend_true>>
    /\ HUnchanged

\* LeafRole::sample_platform(out_sample)
HLeafSample(ans) ==
    /\ HFocus("leaf")
    /\ leaf[1].err = "none"
    /\ LET s == LeafSamplePlatform(leaf[1], epoch_count[1], ans) IN
       /\ leaf' = [leaf EXCEPT ![1] = s.role]
       /\ call' = Call("sample_platform", "leaf", leaf[1].m_policy, <<>>, NoPolicy, s.out, s.result)
    /\ balancer_log' = LogSample(leaf[1], epoch_count[1], ans, balancer_log)
    /\ UNCHANGED <<root, tree, down_tree, down_leaf, epoch_count, all_good, ascend_true>>
    /\ HUnchanged

\* The EPOCH_COUNT signal advances on every package of the node.
HNewEpoch ==
    /\ HFocus("leaf")
    /\ leaf[1].err = "none"
    /\ \A p \in Pkgs : epoch_count[1][p] < MaxEpoch
    /\ epoch_count' = [epoch_count EXCEPT ![1] = [p \in Pkgs |-> @[p] + 1]]
    /\ call' = Call("new_epoch", "leaf", NanPolicy, <<>>, NoPolicy, NoSample, FALSE)
    /\ UNCHANGED <<root, tree, leaf, down_tree, down_leaf, all_good, balancer_log, ascend_true>>
    /\ HUnchanged

\* The count of true results of ascend after one more call of ascend.
CountAscend(n, result) == IF result THEN SetMin({n + 1, 2}) ELSE n

\* The count of true results of ascend after a call of descend: it starts
\* again when the call took the role to another step_count or reset it.
CountDescend(n, moved) == IF moved THEN 0 ELSE n

\* TreeRole::descend(in_policy, out_policy)
HTreeDescend(in_policy) ==
    /\ HFocus("tree")
    /\ tree[1].err = "none"
    /\ LET d == TreeDescend(tree[1], in_policy) IN
       /\ tree' = [tree EXCEPT ![1] = d.role]
       /\ call' = Call("descend", "tree", in_policy, <<>>, d.out, NoSample, d.result)
       /\ down_leaf' = IF d.result
                       THEN SendDown(1, FillOutPolicy(ChildPolicies(1), d.out))
                       ELSE down_leaf
       /\ ascend_true' = [ascend_true EXCEPT !["tree"] =
                             CountDescend(@, d.role.m_step_count # tree[1].m_step_count)]
    /\ UNCHANGED <<root, leaf, down_tree, epoch_count, all_good, balancer_log>>
    /\ HUnchanged

\* TreeRole::ascend(in_sample, out_sample)
HTreeAscend(in_sample) ==
    /\ HFocus("tree")
    /\ tree[1].err = "none"
    /\ LET a == TreeAscend(tree[1], in_sample) IN
       /\ tree' = [tree EXCEPT ![1] = a.role]
       /\ call' = Call("ascend", "tree", NanPolicy, in_sample, NoPolicy, a.out, a.result)
       /\ ascend_true' = [ascend_true EXCEPT !["tree"] = CountAscend(@, a.result)]
    /\ UNCHANGED <<root, leaf, down_tree, down_leaf, epoch_count, all_good, balancer_log>>
    /\ HUnchanged

\* RootRole::descend(in_policy, out_policy)
HRootDescend(in_policy) ==
    /\ HFocus("root")
    /\ root.err \in {"none", "invalid_budget"}
    /\ root.m_step_count < MaxStep
    /\ LET d == RootDescend(root, in_policy) IN
       /\ root' = d.role
       /\ call' = Call("descend", "root", in_policy, <<>>, d.out, NoSample, d.result)
       /\ down_tree' = IF d.result THEN FillOutPolicy(down_tree, d.out) ELSE down_tree
       /\ ascend_true' = [ascend_true EXCEPT !["root"] =
                             CountDescend(@, d.role.m_step_count # root.m_step_count
                                                \/ IsNewCap(root, in_policy))]
    /\ UNCHANGED <<tree, leaf, down_leaf, epoch_count, all_good, balancer_log>>
    /\ HUnchanged

\* RootRole::ascend(in_sample, out_sample)
HRootAscend(in_sample) ==
    /\ HFocus("root")
    /\ root.err = "none"
    /\ LET a == RootAscend(root, in_sample) IN
       /\ root' = a.role
       /\ call' = Call("ascend", "root", NanPolicy, in_sample, NoPolicy, a.out, a.result)
       /\ ascend_true' = [ascend_true EXCEPT !["root"] = CountAscend(@, a.result)]
    /\ UNCHANGED <<tree, leaf, down_tree, down_leaf, epoch_count, all_good, balancer_log>>
    /\ HUnchanged

\* PowerBalancerAgent::validate_policy(policy) on the agent that holds the root:
\* a const method, it writes to its argument only. `call` records the vector
\* before and after, and as result whether the call returned without an
\* exception.
HValidatePolicy(policy) ==
    /\ HFocus("root")
    /\ root.err = "none"
    /\ LET v == ValidatePolicy(policy) IN
       call' = Call("validate_policy", "root", policy, <<>>, v.policy, NoSample,
                    v.err = "none")
    /\ UNCHANGED <<root, tree, leaf, down_tree, down_leaf, epoch_count, all_good,
                   balancer_log, ascend_true>>
    /\ HUnchanged

HNext ==
    \/ \E in_policy \in HLeafPolicies : HLeafAdjust(in_policy)
    \/ \E ans \in AnswersFor(leaf[1]) : HLeafSample(ans)
    \/ HNewEpoch
    \/ \E in_policy \in HPolicies : HTreeDescend(in_policy)
    \/ \E in_sample \in [1..fan_in[1] -> HSamples(tree[1].m_step_count)] : HTreeAscend(in_sample)
    \/ \E in_policy \in HRootPolicies : HRootDescend(in_policy)
    \/ \E in_sample \in [1..fan_in[2] -> HSamples(root.m_step_count)] : HRootAscend(in_sample)
    \/ \E policy \in HManagerPolicies : HValidatePolicy(policy)

RoleSpec == HInit /\ [][HNext]_vars

\* ------------------------------------------------------------ the tree in lock step

\* One walk down and up the whole tree, the way a test drives the agents by
\* hand: descend at the root and at every intermediate agent, adjust_platform
\* and sample_platform on every leaf, ascend at every intermediate agent and
\* at the root. A policy is handed down when descend returned true; a leaf's
\* out_sample is handed up whatever sample_platform returned, so that the walk
\* passes through MEASURE_RUNTIME and REDUCE_LIMIT; an intermediate agent's
\* sample is handed up when ascend returned true.
Round ==
    /\ root.err = "none"
    /\ \A l \in Leaves : leaf[l].err = "none"
    /\ root.m_step_count < MaxStep
    /\ \E rd \in {RootDescend(root, Policy(job_cap, 0, 0, 0))} :
       \E dt \in {IF rd.result THEN FillOutPolicy(down_tree, rd.out) ELSE down_tree} :
       \E td \in {[t \in Trees |->
                       IF dt[t] # NoPolicy /\ rd.role.err = "none"
                       THEN TreeDescend(tree[t], dt[t])
                       ELSE [role |-> tree[t], out |-> NoPolicy, result |-> FALSE]]} :
       \E dl \in {[l \in Leaves |->
                       IF td[ParentOf(l)].result
                       THEN FillOutPolicy(ChildPolicies(ParentOf(l)), td[ParentOf(l)].out)
                                [l - (ParentOf(l) - 1) * fan_in[1]]
                       ELSE down_leaf[l]]} :
       \E la \in {[l \in Leaves |->
                       IF dl[l] # NoPolicy
                       THEN LeafAdjustPlatform(leaf[l], dl[l]) ELSE leaf[l]]} :
           /\ caps_seen' = IF rd.result /\ rd.out.power_cap # 0
                           THEN caps_seen \cup {rd.out.power_cap} ELSE caps_seen
           /\ down_tree' = dt
           /\ down_leaf' = dl
           /\ IF \E l \in Leaves : la[l].err # "none" \/ dl[l] = NoPolicy
              THEN /\ root' = rd.role
                   /\ tree' = [t \in Trees |-> td[t].role]
                   /\ leaf' = la
                   /\ UNCHANGED <<up_leaf, up_tree, reported>>
              ELSE \E ans \in {f \in [Leaves -> UNION {RunAnswers(l, la[l]) : l \in Leaves}] :
                                    \A l \in Leaves : f[l] \in RunAnswers(l, la[l])} :
                   \E ls \in {[l \in Leaves |->
                                   LeafSamplePlatform(la[l], epoch_count[l], ans[l])]} :
                   \E ta \in {[t \in Trees |->
                                   TreeAscend(td[t].role,
                                       [i \in 1..fan_in[1] |->
                                           ls[(t - 1) * fan_in[1] + i].out])]} :
                   \E ut \in {[t \in Trees |->
                                   IF ta[t].result THEN ta[t].out ELSE up_tree[t]]} :
                   \E ra \in {IF \A t \in Trees : ut[t] # NoSample
                               THEN RootAscend(rd.role, ut)
                               ELSE [role |-> rd.role, out |-> NoSample, result |-> FALSE]} :
                       /\ root' = ra.role
                       /\ tree' = [t \in Trees |-> ta[t].role]
                       /\ leaf' = [l \in Leaves |-> ls[l].role]
                       /\ up_leaf' = [l \in Leaves |-> ls[l].out]
                       /\ up_tree' = ut
                       /\ reported' =
                             [reported EXCEPT
                                 !["leaf"] = [l \in Leaves |->
                                     IF ls[l].result
                                     THEN @[l] \cup {ls[l].out.step_count} ELSE @[l]],
                                 !["tree"] = [i \in Leaves |->
                                     IF i \in Trees /\ ta[i].result
                                     THEN @[i] \cup {ta[i].out.step_count} ELSE @[i]]]
    /\ UNCHANGED <<epoch_count, job_cap, injected, call, all_good, balancer_log,
                   ascend_true, split>>

CycleNext ==
    \/ Round
    \/ \E l \in Leaves : NewEpoch(l)

CycleSpec == Init /\ [][CycleNext]_vars

\* ------------------------------------------------------------ BalancingAgent

\* The doubles of split_budget are modelled as exact fractions n / d with d > 0
\* in lowest terms; the inputs below are chosen so that no division by zero
\* occurs.
RECURSIVE GCD(_, _)
GCD(a, b) == IF b = 0 THEN a ELSE GCD(b, a % b)

Abs(x) == IF x < 0 THEN -x ELSE x

Frac(n, d) ==
    LET g == GCD(Abs(n), Abs(d))
        sign == IF d < 0 THEN -1 ELSE 1
    IN  [n |-> (sign * n) \div g, d |-> (sign * d) \div g]

FracOf(i) == [n |-> i, d |-> 1]
FracAdd(x, y) == Frac(x.n * y.d + y.n * x.d, x.d * y.d)
FracSub(x, y) == Frac(x.n * y.d - y.n * x.d, x.d * y.d)
FracMul(x, y) == Frac(x.n * y.n, x.d * y.d)
FracDiv(x, y) == Frac(x.n * y.d, x.d * y.n)
FracLt(x, y) == x.n * y.d < y.n * x.d

RECURSIVE FracSum(_)
FracSum(s) == IF s = <<>> THEN FracOf(0) ELSE FracAdd(Head(s), FracSum(Tail(s)))

\* split_budget_helper, the second loop from child_idx on: `result` holds the
\* budgets of the children before child_idx, avg_power_budget the average that
\* is left for the others once a child was raised to min_power_budget.
RECURSIVE SplitBudgetLoop(_, _, _, _, _, _, _)
SplitBudgetLoop(child_idx, avg_power_budget, min_power_budget, mm, bb, denom, result) ==
    LET num_children == Len(mm) IN
    IF child_idx > num_children THEN result
    ELSE LET unclipped ==
                 FracDiv(FracSub(FracDiv(FracMul(avg_power_budget, FracOf(num_children)),
                                         denom),
                                 bb[child_idx]),
                         mm[child_idx])
             clipped == FracLt(unclipped, min_power_budget)
             pool == FracSub(FracMul(avg_power_budget,
                                     FracOf(num_children - (child_idx - 1))),
                             min_power_budget)
         IN  SplitBudgetLoop(child_idx + 1,
                             IF clipped /\ child_idx # num_children
                             THEN FracDiv(pool, FracOf(num_children - child_idx))
                             ELSE avg_power_budget,
                             min_power_budget, mm, bb, denom,
                             Append(result, IF clipped THEN min_power_budget ELSE unclipped))

\* BalancingAgent::split_budget_helper
split_budget_helper(avg_power_budget, min_power_budget, last_budget0, last_budget1, last_runtime0, last_runtime1) ==
    LET num_children == Len(last_budget0)
        mm == [child_idx \in 1..num_children |->
                  FracDiv(FracOf(last_runtime1[child_idx] - last_runtime0[child_idx]),
                          FracOf(last_budget1[child_idx] - last_budget0[child_idx]))]
        bb == [child_idx \in 1..num_children |->
                  FracSub(FracOf(last_budget0[child_idx]),
                          FracDiv(FracOf(last_runtime0[child_idx]), mm[child_idx]))]
        inv_m_sum == FracSum([child_idx \in 1..num_children |->
                                 FracDiv(FracOf(1), mm[child_idx])])
        ratio_sum == FracSum([child_idx \in 1..num_children |->
                                 FracDiv(bb[child_idx], mm[child_idx])])
    IN  SplitBudgetLoop(1, FracOf(avg_power_budget), FracOf(min_power_budget), mm, bb,
                        FracSub(inv_m_sum, ratio_sum), <<>>)

\* operator< of std::pair<double, int>
PairLess(a, b) == a[1] < b[1] \/ (a[1] = b[1] /\ a[2] < b[2])

\* The vector of the pairs (last_runtime0[idx], idx) after std::sort.
indexed_sorted_last_runtime(last_runtime0) ==
    LET pairs == {<<last_runtime0[idx], idx>> : idx \in DOMAIN last_runtime0} IN
    [child_idx \in DOMAIN last_runtime0 |->
        CHOOSE p \in pairs : Cardinality({q \in pairs : PairLess(q, p)}) = child_idx - 1]

\* sorted_x[child_idx] = x[sort_idx], sort_idx the index at position child_idx.
SortedBy(sorted, x) == [child_idx \in DOMAIN x |-> x[sorted[child_idx][2]]]

\* BalancingAgent::split_budget: the exception it throws, or the vector it
\* returns together with the vector split_budget_helper returned to it.
split_budget(avg_power_budget, min_power_budget, last_budget0, last_budget1, last_runtime0, last_runtime1) ==
    IF avg_power_budget < min_power_budget
    THEN [err |-> "invalid", sorted_result |-> <<>>, result |-> <<>>]
    ELSE LET sorted == indexed_sorted_last_runtime(last_runtime0)
             sorted_result ==
                 split_budget_helper(avg_power_budget, min_power_budget,
                                     SortedBy(sorted, last_budget0),
                                     SortedBy(sorted, last_budget1),
                                     SortedBy(sorted, last_runtime0),
                                     SortedBy(sorted, last_runtime1))
         IN  [err |-> "none", sorted_result |-> sorted_result,
              result |-> [child_idx \in DOMAIN last_budget0 |->
                             sorted_result[sorted[child_idx][2]]]]

\* The number of children of the agent that splits its budget.
NumChildren == 3

\* The arguments of split_budget: the average budget and the minimum, the
\* children's budgets and runtimes of the last two rounds. A child's budget was
\* raised by 2 W since the round before and its runtime fell by 1 or 2 s.
SplitInputs ==
    {[avg_power_budget |-> avg, min_power_budget |-> min,
      last_budget0 |-> b0,
      last_budget1 |-> [i \in 1..NumChildren |-> b0[i] - 2],
      last_runtime0 |-> r0,
      last_runtime1 |-> [i \in 1..NumChildren |-> r0[i] + dr]] :
        avg \in {30, 50}, min \in {5, 40},
        b0 \in {[i \in 1..NumChildren |-> 8 + 2 * i], [i \in 1..NumChildren |-> 12]},
        r0 \in [1..NumChildren -> {2, 3, 4}],
        dr \in {1, 2}}

\* An agent about to split its budget among its children.
SplitInit ==
    /\ InitRoles
    /\ down_tree = [t \in Trees |-> NoPolicy]
    /\ down_leaf = [l \in Leaves |-> NoPolicy]
    /\ up_leaf = [l \in Leaves |-> NoSample]
    /\ up_tree = [t \in Trees |-> NoSample]
    /\ job_cap = 0
    /\ injected = 0
    /\ reported = [a \in {"tree", "leaf"} |-> [i \in Leaves |-> {}]]
    /\ caps_seen = {}

\* The caller picks the arguments from the samples and policies it recorded.
SplitArguments(in) ==
    /\ split = NoSplit
    /\ split' = [split EXCEPT !.in = in]
    /\ UNCHANGED <<root, tree, leaf, down_tree, down_leaf, up_leaf, up_tree, epoch_count,
                   job_cap, injected, call, reported, caps_seen, all_good, balancer_log,
                   ascend_true>>

\* BalancingAgent::split_budget on the arguments picked.
SplitBudget ==
    /\ split.in # NoSplit.in
    /\ split.out = NoSplit.out
    /\ split' = [split EXCEPT !.out =
                    split_budget(split.in.avg_power_budget, split.in.min_power_budget,
                                 split.in.last_budget0, split.in.last_budget1,
                                 split.in.last_runtime0, split.in.last_runtime1)]
    /\ UNCHANGED <<root, tree, leaf, down_tree, down_leaf, up_leaf, up_tree, epoch_count,
                   job_cap, injected, call, reported, caps_seen, all_good, balancer_log,
                   ascend_true>>

SplitNext ==
    \/ \E in \in SplitInputs : SplitArguments(in)
    \/ SplitBudget

SplitSpec == SplitInit /\ [][SplitNext]_vars

\* ------------------------------------------------------------ properties

\* A number read as a power: a cap that was never set counts as none.
Watts(x) == IF IsNan(x) THEN 0 ELSE x

TotalPowerCap ==
    SeqSum([l \in Leaves |->
        SeqSum([p \in Pkgs |-> Watts(leaf[l].m_power_balancer[p].power_cap)])])

TotalPowerLimit ==
    SeqSum([l \in Leaves |->
        SeqSum([p \in Pkgs |-> Watts(leaf[l].m_power_balancer[p].power_limit)])])

MaxCapSeen == IF caps_seen = {} THEN 0 ELSE SetMax(caps_seen)

AdvanceRule(own, complete, in_step_count, after) ==
    (after = own + 1) <=> (complete /\ in_step_count = own + 1)

\* C2: a call of adjust_platform (leaf) or descend (intermediate, root) that
\* does not fail, with a policy that carries no new cap, increments the role's
\* step_count by one if and only if the role's step was complete and the
\* policy's step_count is own + 1. For the root the policy read is the one it
\* holds for the next descend.
C2_StepAdvanceRule ==
    [][/\ (call'.who = "leaf" /\ call'.op = "adjust_platform"
              /\ call'.in_policy.power_cap = 0 /\ leaf'[1].err = "none")
          => AdvanceRule(leaf[1].m_step_count, leaf[1].m_is_step_complete,
                         call'.in_policy.step_count, leaf'[1].m_step_count)
       /\ (call'.who = "tree" /\ call'.op = "descend"
              /\ call'.in_policy.power_cap = 0 /\ tree'[1].err = "none")
          => AdvanceRule(tree[1].m_step_count, tree[1].m_is_step_complete,
                         call'.in_policy.step_count, tree'[1].m_step_count)
       /\ (call'.who = "root" /\ call'.op = "descend"
              /\ ~IsNewCap(root, call'.in_policy) /\ root'.err = "none")
          => AdvanceRule(root.m_step_count, root.m_is_step_complete,
                         root.m_policy.step_count, root'.m_step_count)
      ]_vars

\* A move of step_count that is neither staying nor the next step.
IsReset(own, after) == after # own /\ after # own + 1

\* C3: a leaf or an intermediate role that receives a policy with a non-zero
\* power_cap goes to step_count 0, and the intermediate role passes the policy
\* on; the root does so with a cap that differs from the one in force; a policy
\* with power_cap = 0 never resets a leaf or an intermediate role.
C3_ResetTrigger ==
    [][/\ (call'.who = "leaf" /\ call'.op = "adjust_platform")
          => IF call'.in_policy.power_cap # 0
             THEN leaf'[1].m_step_count = M_STEP_SEND_DOWN_LIMIT
             ELSE ~IsReset(leaf[1].m_step_count, leaf'[1].m_step_count)
       /\ (call'.who = "tree" /\ call'.op = "descend")
          => IF call'.in_policy.power_cap # 0
             THEN /\ tree'[1].m_step_count = M_STEP_SEND_DOWN_LIMIT
                  /\ call'.result
                  /\ call'.out_policy = call'.in_policy
             ELSE ~IsReset(tree[1].m_step_count, tree'[1].m_step_count)
       /\ (call'.who = "root" /\ call'.op = "descend"
              /\ IsNewCap(root, call'.in_policy))
          => root'.m_step_count = M_STEP_SEND_DOWN_LIMIT
      ]_vars

\* Every package of every leaf holds its share of the job-level cap c.
AllLeavesCapped(c) ==
    \A l \in Leaves : \A p \in Pkgs :
        leaf[l].m_power_balancer[p].power_cap = LeafPkgLimit(c)

\* The policy carrying the job-level cap lies in the inbox of every
\* intermediate agent.
CapAtEveryTree ==
    \A t \in Trees : down_tree[t] # NoPolicy /\ down_tree[t].power_cap = job_cap

\* C4: when a fresh cap was injected at the root, the root never fails and the
\* policy carrying that cap stays in the inbox of every intermediate agent,
\* then with every agent ticking again and again every package of every leaf
\* eventually holds the job-level cap divided by the number of packages.
C4_FreshCapReachesEveryLeaf ==
    <>[](injected > 0 /\ root.err = "none" /\ CapAtEveryTree)
        => <>(injected > 0 /\ AllLeavesCapped(job_cap))

\* C5: whenever, in MEASURE_RUNTIME, a sample of a leaf hands a new epoch of
\* every package to its balancer and every balancer answers stable, the leaf
\* eventually returns true from sample_platform for that step.
C5_MeasurementCompletes ==
    \A l \in Leaves :
        (InStep(leaf[l], M_STEP_MEASURE_RUNTIME) /\ all_good[l])
            ~> (\E k \in reported["leaf"][l] : step(k) = M_STEP_MEASURE_RUNTIME)

\* C6: if no cap is ever injected and, on every leaf, again and again a sample
\* finds every balancer fed and answering stable (target met), then every
\* step_count k the root reaches is followed by k + 1 at the root and at every
\* leaf.
C6_CycleKeepsGoing ==
    ([](injected = 0) /\ \A l \in Leaves : []<>all_good[l])
        => \A k \in 0..(MaxStep - 1) :
              /\ (root.m_step_count = k) ~> (root.m_step_count = k + 1)
              /\ \A l \in Leaves :
                    (root.m_step_count = k) ~> (leaf[l].m_step_count = k + 1)

\* The non-leaf role under test.
AscendRole == IF call.who = "tree" THEN tree[1] ELSE root

\* C7: ascend of a non-leaf role returns true only if the smallest step_count
\* of its children's samples is the role's own step_count k: every child's
\* sample carries k or more, one carries k, and k is what goes up.
C7_AscendOnlyAtMinStep ==
    (call.op = "ascend" /\ call.result) =>
        /\ \A i \in DOMAIN call.in_sample :
              call.in_sample[i].step_count >= AscendRole.m_step_count
        /\ \E i \in DOMAIN call.in_sample :
              call.in_sample[i].step_count = AscendRole.m_step_count
        /\ call.out_sample.step_count = AscendRole.m_step_count

\* C7 as the specification states it: ascend returns true only if every child's
\* sample carries the role's step_count.
C7_AscendOnlyIfEveryChildAtStep ==
    (call.op = "ascend" /\ call.result) =>
        \A i \in DOMAIN call.in_sample :
            call.in_sample[i].step_count = AscendRole.m_step_count

\* An intermediate role returned true from ascend with a child ahead of it.
C7_Witness_AscendWithChildAhead ==
    /\ call.op = "ascend" /\ call.who = "tree" /\ call.result
    /\ \E i \in DOMAIN call.in_sample :
          call.in_sample[i].step_count > tree[1].m_step_count

\* C8: in the tree, a policy with step_count k + 1 (k >= 0) is in the inbox of a
\* leaf or of an intermediate agent only if that agent returned true from
\* sample_platform / ascend with a sample of step_count k before.
C8_NoStepBeforeReport ==
    /\ \A t \in Trees :
          (down_tree[t] # NoPolicy /\ down_tree[t].step_count > 0)
              => (down_tree[t].step_count - 1) \in reported["tree"][t]
    /\ \A l \in Leaves :
          (down_leaf[l] # NoPolicy /\ down_leaf[l].step_count > 0)
              => (down_leaf[l].step_count - 1) \in reported["leaf"][l]

\* A leaf received the policy of step_count 1 and entered that step.
C8_Witness_LeafEnteredNextStep ==
    \E l \in Leaves :
        /\ down_leaf[l] # NoPolicy /\ down_leaf[l].step_count = 1
        /\ leaf[l].m_step_count = 1
        /\ 0 \in reported["leaf"][l]

\* A move of step_count from `own` to `after`: none, the next step, or a hard
\* reset to 0 when `reset` says a cap arrived.
StepMove(own, after, reset) ==
    after = own \/ after = own + 1 \/ (after = M_STEP_SEND_DOWN_LIMIT /\ reset)

\* C9: across the ticks of the tree the step_count of every agent stays, or
\* grows by one, or falls back to 0 in a hard reset: at the root when the cap in
\* force changes, below the root when the policy in the inbox carries a cap.
C9_StepCountGrowsUpToReset ==
    [][/\ StepMove(root.m_step_count, root'.m_step_count,
                   root'.m_root_cap # root.m_root_cap)
       /\ \A t \in Trees :
             StepMove(tree[t].m_step_count, tree'[t].m_step_count,
                      down_tree[t] # NoPolicy /\ down_tree[t].power_cap # 0)
       /\ \A l \in Leaves :
             StepMove(leaf[l].m_step_count, leaf'[l].m_step_count,
                      down_leaf[l] # NoPolicy /\ down_leaf[l].power_cap # 0)
      ]_vars

\* C9 as the specification states it: no agent's step_count ever decreases.
C9_StepCountNonDecreasing ==
    [][/\ root'.m_step_count >= root.m_step_count
       /\ \A t \in Trees : tree'[t].m_step_count >= tree[t].m_step_count
       /\ \A l \in Leaves : leaf'[l].m_step_count >= leaf[l].m_step_count
      ]_vars

\* The root accepted a second cap and is back at step_count 0 while the agent
\* below it is still at step_count 1.
C9_Witness_RootResetMidRun ==
    /\ Cardinality(caps_seen) = 2
    /\ root.m_step_count = M_STEP_SEND_DOWN_LIMIT
    /\ \E t \in Trees : tree[t].m_step_count = 1

\* The incoming step_count fits no transition of a role at step_count `own`.
IsDesync(own, complete, in_step_count, reset) ==
    /\ ~reset
    /\ in_step_count # own
    /\ ~(complete /\ in_step_count = own + 1)

\* C10: a call of adjust_platform or descend whose incoming step_count is not
\* the role's own, nor own + 1 with the step complete, nor part of a reset (a
\* policy with a cap, or with step_count 0) fails with the out-of-sync error.
\* For the root the policy read is the one it holds for the next descend.
C10_DesyncIsAnError ==
    [][/\ (call'.who = "leaf" /\ call'.op = "adjust_platform"
              /\ IsDesync(leaf[1].m_step_count, leaf[1].m_is_step_complete,
                          call'.in_policy.step_count,
                          call'.in_policy.power_cap # 0))
          => leaf'[1].err = "out_of_sync"
       /\ (call'.who = "tree" /\ call'.op = "descend"
              /\ IsDesync(tree[1].m_step_count, tree[1].m_is_step_complete,
                          call'.in_policy.step_count,
                          call'.in_policy.power_cap # 0
                              \/ call'.in_policy.step_count = M_STEP_SEND_DOWN_LIMIT))
          => tree'[1].err = "out_of_sync"
       /\ (call'.who = "root" /\ call'.op = "descend"
              /\ IsDesync(root.m_step_count, root.m_is_step_complete,
                          root.m_policy.step_count,
                          IsNewCap(root, call'.in_policy)))
          => root'.err = "out_of_sync"
      ]_vars

\* C11: TreeRole::ascend on a role that entered a step: when the smallest
\* step_count of the children's samples is the role's own and the step is open,
\* the call marks the step complete and returns true; when the children report
\* a step_count above the role's own, the call fails with an error.
C11_AscendDesyncIsAnError ==
    [][(call'.op = "ascend" /\ call'.who = "tree" /\ tree[1].m_step_count >= 0)
          => /\ (AggregateSample(call'.in_sample).step_count = tree[1].m_step_count
                    /\ ~tree[1].m_is_step_complete)
                 => (call'.result /\ tree'[1].m_is_step_complete)
             /\ AggregateSample(call'.in_sample).step_count > tree[1].m_step_count
                 => tree'[1].err # "none"
      ]_vars

\* C12: whenever descend returned true, every slot of out_policy holds the same
\* vector: the incoming policy at an intermediate role, the stored policy at
\* the root.
C12_DescendSendsOnePolicy ==
    /\ (call.op = "descend" /\ call.who = "tree" /\ call.result)
          => \A i \in DOMAIN ChildPolicies(1) : ChildPolicies(1)[i] = call.in_policy
    /\ (call.op = "descend" /\ call.who = "root" /\ call.result)
          => \A t \in Trees : down_tree[t] = root.m_policy

\* An intermediate role with two children returned true from descend on the
\* policy of step_count 1, after the policy of step_count 0 had filled the slots.
C12_Witness_TreePassedStepOn ==
    /\ call.op = "descend" /\ call.who = "tree" /\ call.result
    /\ call.in_policy.step_count = 1
    /\ Cardinality(DOMAIN ChildPolicies(1)) = 2
    /\ \A i \in DOMAIN ChildPolicies(1) : ChildPolicies(1)[i].step_count = 1

\* x is the smallest of the values f[i].
IsLeast(x, f) == (\A i \in DOMAIN f : x <= f[i]) /\ (\E i \in DOMAIN f : x = f[i])

\* x is the largest of the values f[i].
IsGreatest(x, f) == (\A i \in DOMAIN f : x >= f[i]) /\ (\E i \in DOMAIN f : x = f[i])

\* C13: after every ascend, whatever it returned, out_sample is the field-wise
\* aggregate of the children's samples: the least step_count, the greatest
\* max_epoch_runtime, the sum of sum_power_slack, the least min_power_headroom.
C13_AscendAggregatesFieldwise ==
    call.op = "ascend" =>
        /\ IsLeast(call.out_sample.step_count,
                   [i \in DOMAIN call.in_sample |-> call.in_sample[i].step_count])
        /\ IsGreatest(call.out_sample.max_epoch_runtime,
                      [i \in DOMAIN call.in_sample |-> call.in_sample[i].max_epoch_runtime])
        /\ call.out_sample.sum_power_slack
              = SeqSum([i \in DOMAIN call.in_sample |-> call.in_sample[i].sum_power_slack])
        /\ IsLeast(call.out_sample.min_power_headroom,
                   [i \in DOMAIN call.in_sample |-> call.in_sample[i].min_power_headroom])

\* An intermediate role aggregated two samples that differ in step_count,
\* runtime and headroom and both carry slack.
C13_Witness_TwoDifferentChildren ==
    /\ call.op = "ascend" /\ call.who = "tree"
    /\ DOMAIN call.in_sample = 1..2
    /\ call.in_sample[1].step_count # call.in_sample[2].step_count
    /\ call.in_sample[1].max_epoch_runtime # call.in_sample[2].max_epoch_runtime
    /\ call.in_sample[1].min_power_headroom # call.in_sample[2].min_power_headroom
    /\ call.in_sample[1].sum_power_slack > 0 /\ call.in_sample[2].sum_power_slack > 0
    /\ call.out_sample.sum_power_slack
          = call.in_sample[1].sum_power_slack + call.in_sample[2].sum_power_slack

\* The policy the root is to hold after its subtree completed step k with the
\* aggregate `sample`, given the policy `policy` it held before.
PolicyAfterStep(policy, k, sample) ==
    LET share == sample.sum_power_slack \div M_NUM_NODE
        next == [policy EXCEPT !.step_count = k + 1]
    IN  CASE k % M_NUM_STEP = M_STEP_SEND_DOWN_LIMIT -> [next EXCEPT !.power_cap = 0]
          [] k % M_NUM_STEP = M_STEP_MEASURE_RUNTIME ->
                 [next EXCEPT !.max_epoch_runtime = sample.max_epoch_runtime]
          [] k % M_NUM_STEP = M_STEP_REDUCE_LIMIT ->
                 [next EXCEPT !.power_slack =
                     IF share <= sample.min_power_headroom
                     THEN share ELSE sample.min_power_headroom]

\* C14: when RootRole::ascend returns true at step_count k, the stored policy
\* changes in the one field of step k mod 3 (power_cap to 0, max_epoch_runtime
\* to the aggregate, power_slack to min(sum_power_slack / num_node,
\* min_power_headroom)) and in step_count, which becomes k + 1; and the next
\* descend with an unchanged cap returns true, keeps that policy and writes it
\* to every child.
C14_RootPolicyUpdate ==
    [][/\ (call'.op = "ascend" /\ call'.who = "root" /\ call'.result)
          => root'.m_policy
                = PolicyAfterStep(root.m_policy, root.m_step_count, call'.out_sample)
       /\ (call'.op = "descend" /\ call'.who = "root"
              /\ ~IsNewCap(root, call'.in_policy)
              /\ root.m_policy.step_count = root.m_step_count + 1)
          => /\ call'.result
             /\ root'.m_policy = root.m_policy
             /\ \A t \in Trees : down_tree'[t] = root.m_policy
      ]_vars

\* The root closed REDUCE_LIMIT (step_count 2) on a sample with slack 6 and
\* headroom 12 and holds the policy of step_count 3 with power_slack 6 / 2.
C14_Witness_RootClosedReduceLimit ==
    /\ call.op = "ascend" /\ call.who = "root" /\ call.result
    /\ root.m_step_count = 2
    /\ call.out_sample.sum_power_slack = 6 /\ call.out_sample.min_power_headroom = 12
    /\ root.m_policy.step_count = 3 /\ root.m_policy.power_slack = 3

\* C15 as the specification states it: in every policy the root sends down,
\* power_cap is 0 exactly when the policy's step_count mod 3 is not
\* SEND_DOWN_LIMIT (a policy sent on a new cap has step_count 0).
C15_CapZeroExactlyOffSendDownLimit ==
    (call.op = "descend" /\ call.who = "root" /\ call.result)
        => \A t \in Trees :
              (down_tree[t].power_cap = 0)
                  <=> (down_tree[t].step_count % M_NUM_STEP # M_STEP_SEND_DOWN_LIMIT)

\* C15: in every policy the root sends down, power_cap is 0 exactly when the
\* policy's step_count is not 0: the cap travels in the policy of step_count 0
\* that a new cap starts, and in no later policy, SEND_DOWN_LIMIT or not.
C15_CapZeroExactlyAfterFirstStep ==
    (call.op = "descend" /\ call.who = "root" /\ call.result)
        => \A t \in Trees :
              (down_tree[t].power_cap = 0) <=> (down_tree[t].step_count # 0)

\* The root sent the policy of step_count 3, the second SEND_DOWN_LIMIT, and
\* its power_cap is 0.
C15_Witness_SecondSendDownLimit ==
    /\ call.op = "descend" /\ call.who = "root" /\ call.result
    /\ \A t \in Trees :
          /\ down_tree[t].step_count = M_NUM_STEP
          /\ down_tree[t].power_cap = 0

\* The incoming cap of a call of RootRole::descend differs from the last cap
\* the root took over.
FreshCap == call'.op = "descend" /\ call'.who = "root"
                /\ call'.in_policy.power_cap # root.m_root_cap

\* The root after the call is reset on the incoming cap: step_count 0, the
\* policy (cap, 0, 0, 0) stored and written to every child, result true.
RootIsReset ==
    /\ root'.m_step_count = M_STEP_SEND_DOWN_LIMIT
    /\ root'.m_policy = Policy(call'.in_policy.power_cap, M_STEP_SEND_DOWN_LIMIT, 0, 0)
    /\ \A t \in Trees : down_tree'[t] = root'.m_policy
    /\ call'.result

LeafObservable(r) ==
    LET s == LeafSamplePlatform(r, epoch_count[1], CHOOSE ans \in AnswersFor(r) : TRUE) IN
    [step_count |-> r.m_step_count,
     is_step_complete |-> r.m_is_step_complete,
     power_cap |-> [p \in Pkgs |-> r.m_power_balancer[p].power_cap],
     max_epoch_runtime |-> s.out.max_epoch_runtime,
     sum_power_slack |-> s.out.sum_power_slack,
     min_power_headroom |-> s.out.min_power_headroom]

\* What can be seen of the root: its step_count, its step-complete flag and the
\* policy it holds.
RootObservable(r) ==
    [step_count |-> r.m_step_count, is_step_complete |-> r.m_is_step_complete,
     policy |-> r.m_policy]

\* C17: after adjust_platform of a leaf with a non-zero power_cap, and after a
\* descend of the root that reset it on a new cap, what can be seen of the role
\* is what can be seen of a freshly constructed role after the same call.
C17_ResetLaw ==
    /\ (call.op = "adjust_platform" /\ call.who = "leaf"
            /\ call.in_policy.power_cap # 0)
          => LeafObservable(leaf[1])
                = LeafObservable(LeafAdjustPlatform(NewLeaf, call.in_policy))
    /\ (call.op = "descend" /\ call.who = "root" /\ call.result
            /\ root.m_step_count = M_STEP_SEND_DOWN_LIMIT)
          => RootObservable(root)
                = RootObservable(RootDescend(NewRoot, call.in_policy).role)

\* C18: a descend whose incoming step_count is the one the role is at, and so
\* every descend that repeats the call before it, changes nothing of the role,
\* writes no child slot, returns false and raises no error. At the root the cap
\* must be the one in force, and the step_count read is that of the policy the
\* root holds.
C18_DescendIdempotent ==
    [][/\ (call'.op = "descend" /\ call'.who = "tree"
              /\ \/ call'.in_policy.step_count = tree[1].m_step_count
                 \/ (call.op = "descend" /\ call'.in_policy = call.in_policy))
          => /\ tree'[1] = tree[1]
             /\ ~call'.result
             /\ down_leaf' = down_leaf
       /\ (call'.op = "descend" /\ call'.who = "root"
              /\ call'.in_policy.power_cap = root.m_root_cap
              /\ \/ root.m_policy.step_count = root.m_step_count
                 \/ call.op = "descend")
          => /\ [root' EXCEPT !.err = "none"] = [root EXCEPT !.err = "none"]
             /\ root'.err = "none"
             /\ ~call'.result
             /\ down_tree' = down_tree
      ]_vars

\* An intermediate role was handed the policy it took over in the call before,
\* with its step still open, and returned false.
C18_Witness_RepeatedDescend ==
    /\ call.op = "descend" /\ call.who = "tree" /\ ~call.result
    /\ tree[1].m_policy = call.in_policy
    /\ tree[1].m_step_count = 1
    /\ ~tree[1].m_is_step_complete

\* C19: when adjust_platform of a leaf receives a policy with a non-zero
\* power_cap c, afterwards the leaf is at step_count 0 with the step complete,
\* every balancer holds the cap c / m_num_domain, and the next sample_platform,
\* whatever the epoch counts, reports step_count 0 and max_epoch_runtime 0 and
\* returns true.
C19_LeafCapSeeding ==
    (call.op = "adjust_platform" /\ call.who = "leaf" /\ call.in_policy.power_cap # 0)
        => /\ leaf[1].m_step_count = M_STEP_SEND_DOWN_LIMIT
           /\ leaf[1].m_is_step_complete
           /\ \A p \in Pkgs :
                 leaf[1].m_power_balancer[p].power_cap
                     = call.in_policy.power_cap \div m_num_domain
           /\ \A ans \in AnswersFor(leaf[1]) :
                 LET s == LeafSamplePlatform(leaf[1], epoch_count[1], ans) IN
                 /\ s.out.step_count = 0
                 /\ s.out.max_epoch_runtime = 0
                 /\ s.result

\* SEND_DOWN_LIMIT is complete on every leaf.
SendDownLimitDone ==
    \A l \in Leaves :
        /\ leaf[l].m_step_count >= 0
        /\ InStep(leaf[l], M_STEP_SEND_DOWN_LIMIT)
        /\ leaf[l].m_is_step_complete

\* The slack the leaves recorded in REDUCE_LIMIT, over all packages of all nodes.
SlackCollected ==
    SeqSum([l \in Leaves |-> SeqSum([p \in Pkgs |-> leaf[l].m_package[p].power_slack])])

\* The slack the root's policy hands back to the nodes.
SlackHandedBack == M_NUM_NODE * Watts(root.m_policy.power_slack)

C21_LeafSampleFields ==
    (call.op = "sample_platform" /\ call.who = "leaf") =>
        /\ call.out_sample.step_count = leaf[1].m_step_count
        /\ IsGreatest(call.out_sample.max_epoch_runtime,
                      [p \in Pkgs |-> leaf[1].m_package[p].runtime])
        /\ call.out_sample.sum_power_slack
              = SeqSum([p \in Pkgs |-> leaf[1].m_package[p].power_slack])
        /\ IsLeast(call.out_sample.min_power_headroom,
                   [p \in Pkgs |-> leaf[1].m_package[p].power_headroom])
        /\ call.result <=> leaf[1].m_is_step_complete

\* C22: on every node, every package whose balancer was given a cap has
\* POWER_PACKAGE_MIN <= power_limit <= power_cap <= POWER_PACKAGE_MAX, whatever
\* job-level cap the root accepted and in whatever cycle.
C22_PackagePowerInRange ==
    \A l \in Leaves : \A p \in Pkgs :
        ~IsNan(leaf[l].m_power_balancer[p].power_cap) =>
            /\ M_MIN_PKG_POWER_SETTING <= leaf[l].m_power_balancer[p].power_limit
            /\ leaf[l].m_power_balancer[p].power_limit
                  <= leaf[l].m_power_balancer[p].power_cap
            /\ leaf[l].m_power_balancer[p].power_cap <= M_MAX_PKG_POWER_SETTING

\* The cap of the call of RootRole::descend lies outside the range the root
\* was constructed with.
CapOutOfRange(in_policy) ==
    \/ in_policy.power_cap < M_MIN_PKG_POWER_SETTING
    \/ in_policy.power_cap > M_MAX_PKG_POWER_SETTING

\* C23: every call of RootRole::descend with a job-level cap outside
\* [min_power, max_power] fails with the invalid-budget error, returns nothing
\* and writes no child slot: the call that brings the cap, and every later call
\* that brings it again.
C23_OutOfRangeCapAlwaysFails ==
    [][(call'.op = "descend" /\ call'.who = "root" /\ CapOutOfRange(call'.in_policy))
          => /\ root'.err = "invalid_budget"
             /\ ~call'.result
             /\ down_tree' = down_tree
      ]_vars

\* A policy vector that is all zero once its NaN fields are replaced by their
\* defaults: the cap is 0 (a NaN cap becomes the TDP), every other field is 0
\* or NaN.
AllZeroAfterDefaults(policy) ==
    /\ policy.power_cap = 0
    /\ policy.step_count \in {0, NAN}
    /\ policy.max_epoch_runtime \in {0, NAN}
    /\ policy.power_slack \in {0, NAN}

\* C24: validate_policy throws the invalid-policy error on every policy that
\* is all zero once its NaN fields are replaced by their defaults, and the call
\* leaves every role and every mailbox as it was.
C24_AllZeroPolicyRejected ==
    [][(call'.op = "validate_policy" /\ AllZeroAfterDefaults(call'.in_policy))
          => /\ ~call'.result
             /\ UNCHANGED <<root, tree, leaf, down_tree, down_leaf, up_leaf, up_tree,
                            epoch_count>>
      ]_vars

\* validate_policy threw on the vector (0, NaN, 0, NaN) at a root that is in
\* the middle of a run, at step_count 1 with a cap in force.
C24_Witness_RejectedMidRun ==
    /\ call.op = "validate_policy" /\ ~call.result
    /\ call.in_policy = Policy(0, NAN, 0, NAN)
    /\ call.out_policy = Policy(0, 0, 0, 0)
    /\ root.m_step_count = 1
    /\ root.m_root_cap = 24

\* The index of the step implementation a role dispatches to: step_imp() is
\* M_STEP_IMP[step()].
ActiveStep(role) == step(role.m_step_count)

\* C25: in every state, also before the first policy arrives, every role
\* dispatches to the step implementation indexed by its step_count modulo 3.
C25_ActiveStepIsStepCountMod3 ==
    /\ ActiveStep(root) = root.m_step_count % M_NUM_STEP
    /\ \A t \in Trees : ActiveStep(tree[t]) = tree[t].m_step_count % M_NUM_STEP
    /\ \A l \in Leaves : ActiveStep(leaf[l]) = leaf[l].m_step_count % M_NUM_STEP

\* The call of adjust_platform that takes leaf 1 into a SEND_DOWN_LIMIT of a
\* later cycle: no cap in the policy, and the step_count moves on to a positive
\* multiple of 3.
EntersLaterSendDownLimit ==
    /\ call'.op = "adjust_platform" /\ call'.who = "leaf"
    /\ call'.in_policy.power_cap = 0
    /\ leaf'[1].err = "none"
    /\ leaf'[1].m_step_count = leaf[1].m_step_count + 1
    /\ leaf'[1].m_step_count > 0
    /\ leaf'[1].m_step_count % M_NUM_STEP = M_STEP_SEND_DOWN_LIMIT

\* C26 as the specification states it: on entering SEND_DOWN_LIMIT without a
\* new cap the leaf sets every package's cap to its previous cap plus
\* power_slack / num_packages and marks the step complete.
C26_SlackAddedToPreviousCap ==
    [][EntersLaterSendDownLimit =>
          /\ \A p \in Pkgs :
                leaf'[1].m_power_balancer[p].power_cap
                    = Add(leaf[1].m_power_balancer[p].power_cap,
                          Div(call'.in_policy.power_slack, m_num_domain))
          /\ leaf'[1].m_is_step_complete
      ]_vars

\* C26: on entering SEND_DOWN_LIMIT without a new cap the leaf sets every
\* package's cap, and with it the limit, to the limit the package had reached
\* plus power_slack / num_packages, and marks the step complete.
C26_SlackAddedToPreviousLimit ==
    [][EntersLaterSendDownLimit =>
          /\ \A p \in Pkgs :
                /\ leaf'[1].m_power_balancer[p].power_cap
                      = Add(leaf[1].m_power_balancer[p].power_limit,
                            Div(call'.in_policy.power_slack, m_num_domain))
                /\ leaf'[1].m_power_balancer[p].power_limit
                      = leaf'[1].m_power_balancer[p].power_cap
          /\ leaf'[1].m_is_step_complete
      ]_vars

\* The leaf entered the second SEND_DOWN_LIMIT (step_count 3) with a policy
\* slack of 6 W: the package that had lowered its limit from 12 W to 6 W holds
\* the cap 6 + 3, the other one 12 + 3.
C26_Witness_ReducedPackageRaised ==
    /\ call.op = "adjust_platform" /\ call.who = "leaf"
    /\ call.in_policy = Policy(0, M_NUM_STEP, 2, 6)
    /\ leaf[1].m_step_count = M_NUM_STEP
    /\ leaf[1].m_is_step_complete
    /\ leaf[1].m_power_balancer[1].power_cap = 9
    /\ leaf[1].m_power_balancer[2].power_cap = 15

\* C27: whenever sample_platform of a leaf in MEASURE_RUNTIME returns true,
\* the balancer of every package has answered is_runtime_stable with true since
\* the step was entered; with one package not yet stable the call returns false.
C27_CompleteOnlyIfAllStable ==
    (call.op = "sample_platform" /\ call.who = "leaf"
        /\ InStep(leaf[1], M_STEP_MEASURE_RUNTIME) /\ call.result)
        => \A p \in Pkgs : balancer_log[p].stable

\* In MEASURE_RUNTIME the balancer of package 1 has answered stable, the one of
\* package 2 was handed a runtime and answered unstable, and sample_platform
\* returned false.
C27_Witness_OneUnstablePackage ==
    /\ call.op = "sample_platform" /\ call.who = "leaf"
    /\ InStep(leaf[1], M_STEP_MEASURE_RUNTIME)
    /\ balancer_log[1].fed /\ balancer_log[1].stable
    /\ balancer_log[2].fed /\ ~balancer_log[2].stable
    /\ ~call.result

\* C28: in MEASURE_RUNTIME sample_platform hands a runtime to a package's
\* balancer only when the package's EPOCH_COUNT differs from the count at the
\* last runtime it handed to that balancer: no epoch is handed over twice.
C28_EpochFedOnce ==
    [][(call'.op = "sample_platform" /\ call'.who = "leaf"
            /\ InStep(leaf[1], M_STEP_MEASURE_RUNTIME))
          => \A p \in Pkgs :
                balancer_log'[p].fed => epoch_count[1][p] # balancer_log[p].epoch
      ]_vars

\* Package p of leaf 1 has a new epoch and is not yet done with REDUCE_LIMIT.
NewEpochNotDone(p) ==
    /\ epoch_count[1][p] # leaf[1].m_package[p].last_epoch_count
    /\ ~leaf[1].m_package[p].is_step_complete

\* C29: sample_platform of a leaf in REDUCE_LIMIT, for every package with a new
\* epoch that is not yet done: the balancer is handed the runtime, the package
\* is done afterwards exactly when the balancer answered target met or the
\* package had been marked out-of-bounds, and power_slack and power_headroom
\* are both the balancer's cap less its limit.
C29_ReduceLimitSample ==
    [][(call'.op = "sample_platform" /\ call'.who = "leaf"
            /\ InStep(leaf[1], M_STEP_REDUCE_LIMIT))
          => \A p \in Pkgs :
                NewEpochNotDone(p) =>
                    /\ balancer_log'[p].fed
                    /\ leaf'[1].m_package[p].is_step_complete
                          <=> (balancer_log'[p].met
                                  \/ leaf[1].m_package[p].is_out_of_bounds)
                    /\ leaf'[1].m_package[p].power_slack
                          = Sub(leaf'[1].m_power_balancer[p].power_cap,
                                leaf'[1].m_power_balancer[p].power_limit)
                    /\ leaf'[1].m_package[p].power_headroom
                          = leaf'[1].m_package[p].power_slack
      ]_vars

\* In REDUCE_LIMIT both balancers were handed a runtime: the one of package 1
\* answered target met and the package is done with no slack; the one of
\* package 2 lowered its limit by 6 W, and the package is not done and records
\* 6 W of slack and of headroom.
C29_Witness_OneDoneOneReduced ==
    /\ call.op = "sample_platform" /\ call.who = "leaf"
    /\ InStep(leaf[1], M_STEP_REDUCE_LIMIT)
    /\ balancer_log[1].fed /\ balancer_log[1].met
    /\ leaf[1].m_package[1].is_step_complete
    /\ leaf[1].m_package[1].power_slack = 0
    /\ balancer_log[2].fed /\ ~balancer_log[2].met
    /\ ~leaf[1].m_package[2].is_step_complete
    /\ leaf[1].m_package[2].power_slack = 6
    /\ leaf[1].m_package[2].power_headroom = 6

\* C30: after adjust_platform of a leaf, for every package whose balancer
\* requests a valid limit (a number other than 0): the platform's control was
\* written with the request; if the limit the platform enforces is below the
\* request, the package is marked out-of-bounds and the balancer was told the
\* enforced limit through power_limit_adjusted; if the request was met, the
\* package is not marked out-of-bounds.
C30_AdjustWritesControl ==
    [][(call'.op = "adjust_platform" /\ call'.who = "leaf" /\ leaf'[1].err = "none")
          => \A p \in Pkgs :
                (~IsNan(leaf'[1].m_power_balancer[p].power_limit)
                     /\ leaf'[1].m_power_balancer[p].power_limit # 0)
                => /\ balancer_log'[p].control = leaf'[1].m_power_balancer[p].power_limit
                   /\ Lt(leaf'[1].m_package[p].actual_limit,
                         leaf'[1].m_power_balancer[p].power_limit)
                         => /\ leaf'[1].m_package[p].is_out_of_bounds
                            /\ balancer_log'[p].adjusted
                                  = leaf'[1].m_package[p].actual_limit
                   /\ Eq(leaf'[1].m_package[p].actual_limit,
                         leaf'[1].m_power_balancer[p].power_limit)
                         => ~leaf'[1].m_package[p].is_out_of_bounds
      ]_vars

\* C31: for each step a non-leaf role enters, ascend returns true at most once:
\* between two calls of descend that take the role to another step_count or
\* reset it, at most one call of ascend returns true.
C31_AscendTrueOncePerStep ==
    /\ ascend_true["tree"] <= 1
    /\ ascend_true["root"] <= 1

\* An intermediate role at step_count 1 returned true from ascend once, was then
\* handed samples of its step again and returned false.
C31_Witness_SecondAscendFalse ==
    /\ call.op = "ascend" /\ call.who = "tree" /\ ~call.result
    /\ tree[1].m_step_count = 1
    /\ ascend_true["tree"] = 1
    /\ \A i \in DOMAIN call.in_sample : call.in_sample[i].step_count = 1

\* No policy with a non-zero power_cap has reached the leaf: its balancers hold
\* no cap.
Unseeded(role) == \A p \in Pkgs : IsNan(role.m_power_balancer[p].power_cap)

\* C32: adjust_platform of a leaf that has never received a policy with a
\* non-zero power_cap fails with the out-of-sync error on every policy whose
\* power_cap is 0, whatever its step_count, step_count 0 included.
C32_UnseededLeafRejectsCapZero ==
    [][(call'.op = "adjust_platform" /\ call'.who = "leaf"
            /\ Unseeded(leaf[1]) /\ call'.in_policy.power_cap = 0)
          => leaf'[1].err = "out_of_sync"
      ]_vars

\* The last call was a RootRole::descend that accepted a fresh cap: it returned
\* true and wrote a policy that carries the cap.
AcceptedFreshCap ==
    /\ call.op = "descend" /\ call.who = "root" /\ call.result
    /\ call.out_policy.power_cap # 0

\* C33: after RootRole::descend accepted a fresh cap, from whatever state, the
\* root's step-complete flag is false, and the next ascend in which every child
\* reports step_count 0 returns true, sets the cap of the root's policy to 0 and
\* its step_count to 1.
C33_RootProgressAfterReset ==
    [][/\ (FreshCap /\ call'.result) => ~root'.m_is_step_complete
       /\ (AcceptedFreshCap /\ call'.op = "ascend" /\ call'.who = "root"
              /\ \A i \in DOMAIN call'.in_sample :
                    call'.in_sample[i].step_count = M_STEP_SEND_DOWN_LIMIT)
          => /\ call'.result
             /\ root'.m_policy.power_cap = 0
             /\ root'.m_policy.step_count = 1
      ]_vars

\* The root's tick in which ascend returned true at step_count 0: the root's
\* policy moves on to step_count 1.
RootCompletesSendDownLimit ==
    /\ root'.m_step_count = M_STEP_SEND_DOWN_LIMIT
    /\ root.m_policy.step_count # 1
    /\ root'.m_policy.step_count = 1

\* C34: whenever the root marks SEND_DOWN_LIMIT complete, the samples it does
\* so on come from children that applied the cap in force: every intermediate
\* agent holds the policy with that cap and every leaf has seeded its balancers
\* with it. A sample of step_count 0 sent under the cap before never completes
\* the step of the new cap.
C34_NoCompletionOnStaleSample ==
    [][RootCompletesSendDownLimit
          => /\ \A t \in Trees : tree[t].m_policy.power_cap = root'.m_root_cap
             /\ AllLeavesCapped(root'.m_root_cap)
      ]_vars

\* The root was reset at most once: it accepted no second cap and refused none.
AtMostOneReset == Cardinality(caps_seen) <= 1 /\ root.err = "none"

\* The step_counts of a parent and its child are in lock step.
LockStep(parent, child) ==
    /\ child.m_step_count <= parent.m_step_count
    /\ parent.m_step_count <= child.m_step_count + 1

EntersReduceLimit ==
    /\ call'.op = "adjust_platform" /\ call'.who = "leaf"
    /\ leaf'[1].err = "none"
    /\ leaf'[1].m_step_count # leaf[1].m_step_count
    /\ InStep(leaf'[1], M_STEP_REDUCE_LIMIT)

\* C36: whenever a leaf enters REDUCE_LIMIT, in the first cycle, in a later one
\* or after a reset, no package is marked done and none is marked
\* out-of-bounds.
C36_PackageStateFreshOnEntry ==
    [][EntersReduceLimit =>
          \A p \in Pkgs :
              /\ ~leaf'[1].m_package[p].is_step_complete
              /\ ~leaf'[1].m_package[p].is_out_of_bounds
      ]_vars

\* The role's step_count, step-complete flag and stored policy are those of
\* before the call.
RoleKept(before, after) ==
    /\ after.m_step_count = before.m_step_count
    /\ after.m_is_step_complete = before.m_is_step_complete
    /\ after.m_policy = before.m_policy

\* C37: a call that fails leaves the role as it was: RootRole::descend that
\* refuses an out-of-range cap keeps step_count, flag, policy and remembered cap,
\* and LeafRole::adjust_platform and TreeRole::descend that raise the
\* out-of-sync error keep step_count, flag and policy.
C37_StateUnchangedOnError ==
    [][/\ (call'.op = "descend" /\ call'.who = "root" /\ root'.err = "invalid_budget")
          => /\ RoleKept(root, root')
             /\ root'.m_root_cap = root.m_root_cap
       /\ (call'.op = "adjust_platform" /\ call'.who = "leaf"
              /\ leaf'[1].err = "out_of_sync")
          => RoleKept(leaf[1], leaf'[1])
       /\ (call'.op = "descend" /\ call'.who = "tree" /\ tree'[1].err = "out_of_sync")
          => RoleKept(tree[1], tree'[1])
      ]_vars

\* C38: in a run of the tree, where every tick of the root calls descend before
\* ascend, the root raises neither the sample-mismatch exception of ascend nor
\* the out-of-sync exception of descend, and from the first descend on the
\* step_count of its policy is its own step_count or that plus one. This holds
\* whatever the first cap: a first cap out of range ends the run with the
\* invalid-budget error, not with one of these two.
C38_RootExceptionsUnreachable ==
    /\ root.err \notin {"sample_mismatch", "out_of_sync"}
    /\ ~IsNan(root.m_root_cap) =>
          root.m_policy.step_count \in {root.m_step_count, root.m_step_count + 1}

\* The root, started with a cap in range, completed SEND_DOWN_LIMIT, published
\* step_count 1 and descended to it: it is at step_count 1 with the step open.
C38_Witness_RootDescendedToStepOne ==
    /\ root.err = "none"
    /\ root.m_root_cap >= M_MIN_PKG_POWER_SETTING
    /\ root.m_root_cap <= M_MAX_PKG_POWER_SETTING
    /\ root.m_step_count = 1
    /\ root.m_policy.step_count = 1
    /\ ~root.m_is_step_complete
    /\ \A t \in Trees : down_tree[t] = root.m_policy

\* C39: RootRole::descend called with the vector that validate_policy has just
\* returned without an exception never fails with the invalid-budget error.
C39_ValidatedPolicyAccepted ==
    [][(call.op = "validate_policy" /\ call.result
            /\ call'.op = "descend" /\ call'.who = "root"
            /\ call'.in_policy = call.out_policy)
          => root'.err # "invalid_budget"
      ]_vars

\* split_budget returned a vector.
SplitReturned == split.out # NoSplit.out /\ split.out.err = "none"

\* C40: whenever split_budget returns, the child at position child_idx of the
\* runtime-sorted order gets the budget split_budget_helper computed at that
\* position, and every budget returned is at least min_power_budget.
C40_SplitBudgetInChildOrder ==
    SplitReturned =>
        LET sorted == indexed_sorted_last_runtime(split.in.last_runtime0) IN
        /\ \A child_idx \in 1..NumChildren :
              split.out.result[sorted[child_idx][2]] = split.out.sorted_result[child_idx]
        /\ \A i \in 1..NumChildren :
              ~FracLt(split.out.result[i], FracOf(split.in.min_power_budget))

====
